---- MODULE Spec2Model ----
(***************************************************************************)
(* Diagram synchronisation of the canvas: the domain store (tables, areas, *)
(* relationships, dependencies), the rendered nodes and edges, the overlap *)
(* graph, and the handlers, effects and timers that keep them consistent.  *)
(*                                                                         *)
(* Numbers.  A JavaScript number is a record [k, v]: k = "num" is the      *)
(* finite number v/2 (so halves are representable and Math.round is not    *)
(* the identity), k = "nan" is NaN, k = "inf" is +Infinity (v = 1) or      *)
(* -Infinity (v = -1), and k = "undef" is a value that is not of type      *)
(* number (undefined).                                                     *)
(***************************************************************************)
EXTENDS Integers, Sequences, FiniteSets, TLC

VARIABLES
    tables,                  \* domain store: ordered table list
    areas,                   \* domain store: ordered area list
    relationships,           \* domain store: ordered relationship list
    dependencies,            \* domain store: ordered dependency list
    readonly,                \* domain store: read-only policy
    nodes,                   \* useNodesState: rendered nodes
    edges,                   \* useEdgesState: rendered edges
    selectedTableIds,        \* useState: ids of the selected nodes
    selectedRelationshipIds, \* useState: ids of the selected edges
    filteredSchemas,         \* domain store: schema-visibility filter
    databaseType,            \* domain store: the active dialect
    showDependenciesOnCanvas,\* local configuration: the show-dependencies preference
    overlapGraph,            \* useCanvas: overlap graph (current state)
    rendered,                \* what the closures of the last render captured
    dirty,                   \* state was set since the last render
    pending,                 \* effects whose dependencies changed, not yet run
    timers,                  \* pending debounce timers
    settles,                 \* the bursts whose overlap settle wrote the overlap graph, in order
    calls,                   \* calls the last handler made on the domain / UI surfaces
    forwarded,               \* change list the last handler passed to onNodesChange / onEdgesChange
    last,                    \* the last operation and its input
    steps,                   \* number of external inputs so far
    tableField,              \* one TableField element of the side panel
    prevFilteredSchemas,     \* useRef: the filter the filter-change effect saw last
    filterTimers             \* pending timers of the filter-change effect's debounced calls

\* the policy, filter, dialect and preference: no operation of the canvas sets them
config == <<readonly, filteredSchemas, databaseType, showDependenciesOnCanvas>>

vars == <<tables, areas, relationships, dependencies, readonly, nodes, edges,
          selectedTableIds, selectedRelationshipIds, filteredSchemas,
          databaseType, showDependenciesOnCanvas, overlapGraph, rendered, dirty, pending, timers, settles, calls,
          forwarded, last, steps, tableField, prevFilteredSchemas, filterTimers>>

\* the state of the filter-change effect
filterSite == <<prevFilteredSchemas, filterTimers>>

----------------------------------------------------------------------------
(* Bounds of the model *)

MaxSteps == 2

----------------------------------------------------------------------------
(* JavaScript numbers *)

Num(n) == [k |-> "num", v |-> n]
NaN == [k |-> "nan", v |-> 0]
PosInf == [k |-> "inf", v |-> 1]
NegInf == [k |-> "inf", v |-> -1]
Undef == [k |-> "undef", v |-> 0]

\* typeof c === 'number' && !isNaN(c)
IsValidNumber(c) == c.k \in {"num", "inf"}

\* Number.isFinite(c)
IsFinite(c) == c.k = "num"

\* Math.round: nearest integer, halves towards +Infinity
MathRound(c) ==
    CASE c.k = "num" -> Num(2 * ((c.v + 1) \div 2))
      [] c.k = "inf" -> c
      [] OTHER -> NaN

----------------------------------------------------------------------------
(* Sequences *)

MapSeq(s, F(_)) == [i \in 1..Len(s) |-> F(s[i])]

SomeSeq(s, P(_)) == \E i \in 1..Len(s) : P(s[i])

Includes(s, e) == \E i \in 1..Len(s) : s[i] = e

Range(s) == {s[i] : i \in 1..Len(s)}

\* Array.prototype.find: the first element with the id, when there is one
HasId(s, id) == \E i \in 1..Len(s) : s[i].id = id

FindId(s, id) == s[CHOOSE i \in 1..Len(s) : s[i].id = id /\ \A j \in 1..(i - 1) : s[j].id # id]

----------------------------------------------------------------------------
(* Domain entities and their projection to nodes *)

\* DBField
Field(id, type) == [id |-> id, type |-> type]

\* DBTable
Table(id, x, y, fields) ==
    [id |-> id, x |-> x, y |-> y, width |-> Undef, fields |-> fields, schema |-> "public"]

Area(id, x, y) ==
    [id |-> id, x |-> x, y |-> y, width |-> Num(8), height |-> Num(8)]

\* the minimum (and default) width of a table node
MIN_TABLE_SIZE == Num(4)

NoMeasure == [width |-> Undef, height |-> Undef]

\* filteredSchemas: undefined (no filter), or the list of schemas shown
NoFilter == [on |-> FALSE, schemas |-> {}]

shouldShowTablesBySchemaFilter(table, filter) ==
    ~filter.on \/ table.schema \in filter.schemas

tableToTableNode(table, filter) ==
    [id |-> table.id,
     type |-> "table",
     data |-> table,
     position |-> [x |-> IF IsValidNumber(table.x) THEN table.x ELSE Num(0),
                   y |-> IF IsValidNumber(table.y) THEN table.y ELSE Num(0)],
     isOverlapping |-> FALSE,
     width |-> IF table.width = Undef THEN MIN_TABLE_SIZE ELSE table.width,
     height |-> Undef,
     measured |-> NoMeasure,
     dataMeasured |-> NoMeasure,
     hidden |-> ~shouldShowTablesBySchemaFilter(table, filter),
     dragging |-> FALSE,
     resizing |-> FALSE,
     selected |-> FALSE]

areaToAreaNode(area) ==
    [id |-> area.id,
     type |-> "area",
     data |-> area,
     position |-> [x |-> area.x, y |-> area.y],
     isOverlapping |-> FALSE,
     width |-> area.width,
     height |-> area.height,
     measured |-> NoMeasure,
     dataMeasured |-> NoMeasure,
     hidden |-> FALSE,
     dragging |-> FALSE,
     resizing |-> FALSE,
     selected |-> FALSE]

\* the adjacency list of a vertex, [] when the graph has no such vertex
Adjacency(g, id) == IF id \in DOMAIN g THEN g[id] ELSE <<>>

\* (a projection that flags every table that has a vertex in the graph)
ProjectTable_VertexMeansOverlap(table, currentNodes, filter, graph) ==
    LET node == tableToTableNode(table, filter)
        isOverlapping == table.id \in DOMAIN graph
    IN  IF HasId(currentNodes, table.id)
        THEN LET existingNode == FindId(currentNodes, table.id)
                 keep == IsValidNumber(existingNode.position.x)
                         /\ IsValidNumber(existingNode.position.y)
             IN  [node EXCEPT
                    !.position = IF keep THEN existingNode.position ELSE @,
                    !.measured = IF existingNode.dragging \/ existingNode.resizing
                                 THEN existingNode.measured ELSE @,
                    !.selected = existingNode.selected,
                    !.dragging = existingNode.dragging,
                    !.resizing = existingNode.resizing,
                    !.isOverlapping = isOverlapping]
        ELSE [node EXCEPT !.isOverlapping = isOverlapping]

\* the table node of one projection pass: the updater of setNodes, per table
ProjectTable(table, currentNodes, filter, graph) ==
    LET node == tableToTableNode(table, filter)
        isOverlapping == Len(Adjacency(graph, table.id)) > 0
    IN  IF HasId(currentNodes, table.id)
        THEN LET existingNode == FindId(currentNodes, table.id)
                 keep == IsValidNumber(existingNode.position.x)
                         /\ IsValidNumber(existingNode.position.y)
             IN  [node EXCEPT
                    !.position = IF keep THEN existingNode.position ELSE @,
                    !.measured = IF existingNode.dragging \/ existingNode.resizing
                                 THEN existingNode.measured ELSE @,
                    !.selected = existingNode.selected,
                    !.dragging = existingNode.dragging,
                    !.resizing = existingNode.resizing,
                    !.isOverlapping = isOverlapping]
        ELSE [node EXCEPT !.isOverlapping = isOverlapping]

\* (a projection that keeps the nodes of entities that are gone)
ProjectNodes_KeepingGone(tbls, ars, currentNodes, filter, graph) ==
    MapSeq(tbls, LAMBDA t : ProjectTable(t, currentNodes, filter, graph))
    \o MapSeq(ars, areaToAreaNode)
    \o SelectSeq(currentNodes, LAMBDA n : ~HasId(tbls, n.id) /\ ~HasId(ars, n.id))

\* the node projection effect's updater
ProjectNodes(tbls, ars, currentNodes, filter, graph) ==
    MapSeq(tbls, LAMBDA t : ProjectTable(t, currentNodes, filter, graph))
    \o MapSeq(ars, areaToAreaNode)

----------------------------------------------------------------------------
(* Overlap graph engine: adjacency lists by table id, in iteration order *)

EmptyGraph == [v \in {} |-> <<>>]

\* rendered height of a table with n fields: a header and one row per field
calcTableHeight(n) == Num(2 + 2 * n)

\* JavaScript's a ?? b on sizes
Coalesce(a, b) == IF a = Undef THEN b ELSE a

\* the rectangle of a table node: measured size when the rendering surface
\* reported it, else the declared width and the height of the field rows
NodeRect(node) ==
    [x |-> node.position.x,
     y |-> node.position.y,
     w |-> Coalesce(node.measured.width, node.width),
     h |-> Coalesce(node.measured.height, calcTableHeight(Len(node.data.fields)))]

\* the rectangle of a table of the domain store
TableRect(table) ==
    [x |-> table.x,
     y |-> table.y,
     w |-> Coalesce(table.width, MIN_TABLE_SIZE),
     h |-> calcTableHeight(Len(table.fields))]

\* both projections intersect with non-zero measure; a comparison with a
\* non-finite number is false
RectsOverlap(a, b) ==
    /\ \A c \in {a.x, a.y, a.w, a.h, b.x, b.y, b.w, b.h} : IsFinite(c)
    /\ a.x.v < b.x.v + b.w.v
    /\ b.x.v < a.x.v + a.w.v
    /\ a.y.v < b.y.v + b.h.v
    /\ b.y.v < a.y.v + a.h.v

addVertex(g, id) ==
    IF id \in DOMAIN g THEN g
    ELSE [v \in DOMAIN g \cup {id} |-> IF v = id THEN <<>> ELSE g[v]]

\* one direction of an edge, no duplicate
addArc(g, a, b) ==
    LET h == addVertex(g, a)
    IN  IF Includes(h[a], b) THEN h ELSE [h EXCEPT ![a] = Append(@, b)]

\* (an edge recorded on one side only)
addEdge_OneWay(g, a, b) == addArc(g, a, b)

addEdge(g, a, b) == addArc(addArc(g, a, b), b, a)

removeVertex(g, id) ==
    [v \in DOMAIN g \ {id} |-> SelectSeq(g[v], LAMBDA w : w # id)]

RECURSIVE LinkOverlapping(_, _, _, _)
\* add an edge for each of others[i..] whose rectangle overlaps the node's
LinkOverlapping(g, node, others, i) ==
    IF i > Len(others) THEN g
    ELSE LinkOverlapping(
             IF others[i].id # node.id
                /\ RectsOverlap(NodeRect(node), NodeRect(others[i]))
             THEN addEdge(g, node.id, others[i].id)
             ELSE g,
             node, others, i + 1)

\* incrementalUpdate: the node's adjacency against all others, the rest untouched
findTableOverlapping(node, visibleNodes, g) ==
    LinkOverlapping(addVertex(removeVertex(g, node.id), node.id), node, visibleNodes, 1)

\* fullRecompute: pairwise intersection over the tables
findOverlappingTables(tbls) ==
    [v \in {tbls[i].id : i \in 1..Len(tbls)} |->
        LET me == CHOOSE i \in 1..Len(tbls) : tbls[i].id = v
            hit(j) == j # me /\ RectsOverlap(TableRect(tbls[me]), TableRect(tbls[j]))
            idx == SelectSeq([j \in 1..Len(tbls) |-> j], hit)
        IN  [k \in 1..Len(idx) |-> tbls[idx[k]].id]]

VisibleTableNodes(ns) == SelectSeq(ns, LAMBDA n : ~n.hidden /\ n.type = "table")

----------------------------------------------------------------------------
(* Node changes of the rendering surface *)

NoPosition == [has |-> FALSE, x |-> Undef, y |-> Undef]
Position(x, y) == [has |-> TRUE, x |-> x, y |-> y]
NoDimensions == [has |-> FALSE, width |-> Undef, height |-> Undef]
Dimensions(w, h) == [has |-> TRUE, width |-> w, height |-> h]

PositionChange(id, dragging, position) ==
    [type |-> "position", id |-> id, dragging |-> dragging, resizing |-> FALSE,
     position |-> position, dimensions |-> NoDimensions, selected |-> FALSE]

DimensionsChange(id, resizing, dimensions) ==
    [type |-> "dimensions", id |-> id, dragging |-> FALSE, resizing |-> resizing,
     position |-> NoPosition, dimensions |-> dimensions, selected |-> FALSE]

RemoveChange(id) ==
    [type |-> "remove", id |-> id, dragging |-> FALSE, resizing |-> FALSE,
     position |-> NoPosition, dimensions |-> NoDimensions, selected |-> FALSE]

SelectChange(id, selected) ==
    [type |-> "select", id |-> id, dragging |-> FALSE, resizing |-> FALSE,
     position |-> NoPosition, dimensions |-> NoDimensions, selected |-> selected]

\* onNodesChangeHandler, first step: a coordinate that is not a number is
\* replaced by the node's current one, or by 0 when there is no such node
SanitizeChange(change, ns) ==
    IF change.type = "position" /\ change.position.has
    THEN LET x == IF IsValidNumber(change.position.x) THEN change.position.x
                  ELSE IF HasId(ns, change.id) THEN FindId(ns, change.id).position.x
                  ELSE Num(0)
             y == IF IsValidNumber(change.position.y) THEN change.position.y
                  ELSE IF HasId(ns, change.id) THEN FindId(ns, change.id).position.y
                  ELSE Num(0)
         IN  [change EXCEPT !.position = Position(x, y)]
    ELSE change

\* (the handlers without their read-only gate)
ReadonlyFilter_Open(changes, ro) == changes

\* the read-only gate of both change handlers
ReadonlyFilter(changes, ro) ==
    IF ro THEN SelectSeq(changes, LAMBDA c : c.type # "remove") ELSE changes

\* (the filter without its test of the dragging flag)
IsTerminalPosition_AnyPosition(c) == c.type = "position"

IsTerminalPosition(c) == c.type = "position" /\ ~c.dragging

IsSizeChange(c) == c.type = "dimensions" /\ c.resizing

\* (the filter without its test that getNode finds a node)
findRelevantNodesChanges_AnyId(changes, type, ns) ==
    LET relevant(c) == /\ c.type \in {"position", "dimensions", "remove"}
                       /\ (HasId(ns, c.id) => FindId(ns, c.id).type = type)
        relevantChanges == SelectSeq(changes, relevant)
    IN  [positionChanges |-> SelectSeq(relevantChanges, IsTerminalPosition),
         removeChanges |-> SelectSeq(relevantChanges, LAMBDA c : c.type = "remove"),
         sizeChanges |-> SelectSeq(relevantChanges, IsSizeChange)]

findRelevantNodesChanges(changes, type, ns) ==
    LET relevant(c) == /\ c.type \in {"position", "dimensions", "remove"}
                       /\ HasId(ns, c.id)
                       /\ FindId(ns, c.id).type = type
        relevantChanges == SelectSeq(changes, relevant)
    IN  [positionChanges |-> SelectSeq(relevantChanges, IsTerminalPosition),
         removeChanges |-> SelectSeq(relevantChanges, LAMBDA c : c.type = "remove"),
         sizeChanges |-> SelectSeq(relevantChanges, IsSizeChange)]

\* "skip updates if node is being dragged"
IsDragging(positionChanges) == SomeSeq(positionChanges, LAMBDA c : c.dragging)

\* the updater the handler passes to updateTablesState
\* (an updater that moves the tables and removes none)
TablesUpdater_KeepingRemoved(currentTables, positionChanges, removeChanges) ==
    LET writes(id) == SelectSeq(positionChanges, LAMBDA c : c.id = id /\ c.position.has)
        update(table) ==
            IF Len(writes(table.id)) > 0
            THEN LET c == writes(table.id)[Len(writes(table.id))]
                 IN  [table EXCEPT !.x = MathRound(c.position.x),
                                   !.y = MathRound(c.position.y)]
            ELSE table
    IN  MapSeq(currentTables, update)

TablesUpdater(currentTables, positionChanges, removeChanges) ==
    LET writes(id) == SelectSeq(positionChanges, LAMBDA c : c.id = id /\ c.position.has)
        update(table) ==
            IF Len(writes(table.id)) > 0
            THEN LET c == writes(table.id)[Len(writes(table.id))]
                 IN  [table EXCEPT !.x = MathRound(c.position.x),
                                   !.y = MathRound(c.position.y)]
            ELSE table
    IN  SelectSeq(MapSeq(currentTables, update),
                  LAMBDA t : ~SomeSeq(removeChanges, LAMBDA c : c.id = t.id))

\* the table part of the handler: is the domain patched and the settle scheduled?
PatchesTables(rel) ==
    /\ \/ Len(rel.positionChanges) > 0
       \/ Len(rel.removeChanges) > 0
       \/ Len(rel.sizeChanges) > 0
    /\ ~IsDragging(rel.positionChanges)

Call(op, ids, data) == [op |-> op, ids |-> ids, data |-> data]

\* the attributes a call carries: keys names the ones present
NoData == [keys |-> "none", x |-> Undef, y |-> Undef, width |-> Undef, height |-> Undef]

ChangeIds(changes) == MapSeq(changes, LAMBDA c : c.id)

\* the calls of the area part of the handler, in order
AreaCalls(rel) ==
    LET upd(c) ==
            IF c.type = "position"
            THEN Call("updateArea", <<c.id>>,
                      [NoData EXCEPT !.keys = "xy", !.x = c.position.x, !.y = c.position.y])
            ELSE Call("updateArea", <<c.id>>,
                      [NoData EXCEPT !.keys = "wh", !.width = c.dimensions.width,
                                     !.height = c.dimensions.height])
    IN  MapSeq(rel.positionChanges \o rel.sizeChanges, upd)
        \o MapSeq(rel.removeChanges, LAMBDA c : Call("removeArea", <<c.id>>, NoData))

\* domain store: updateArea merges the given attributes, removeArea drops the area
ApplyAreaCall(ars, call) ==
    IF call.op = "removeArea"
    THEN SelectSeq(ars, LAMBDA a : a.id # call.ids[1])
    ELSE MapSeq(ars, LAMBDA a :
             IF a.id # call.ids[1] THEN a
             ELSE IF call.data.keys = "xy"
                  THEN [a EXCEPT !.x = call.data.x, !.y = call.data.y]
                  ELSE [a EXCEPT !.width = call.data.width, !.height = call.data.height])

RECURSIVE ApplyAreaCalls(_, _)
ApplyAreaCalls(ars, cs) ==
    IF cs = <<>> THEN ars ELSE ApplyAreaCalls(ApplyAreaCall(ars, Head(cs)), Tail(cs))

\* the rendering surface's applyNodeChanges, one change
ApplyNodeChange(ns, c) ==
    CASE c.type = "remove" -> SelectSeq(ns, LAMBDA n : n.id # c.id)
      [] c.type = "position" ->
            MapSeq(ns, LAMBDA n :
                IF n.id # c.id THEN n
                ELSE [n EXCEPT !.position = IF c.position.has
                                            THEN [x |-> c.position.x, y |-> c.position.y]
                                            ELSE @,
                               !.dragging = c.dragging])
      [] c.type = "dimensions" ->
            MapSeq(ns, LAMBDA n :
                IF n.id # c.id THEN n
                ELSE [n EXCEPT !.measured = IF c.dimensions.has
                                            THEN [width |-> c.dimensions.width,
                                                  height |-> c.dimensions.height]
                                            ELSE @,
                               !.resizing = c.resizing])
      [] OTHER ->
            MapSeq(ns, LAMBDA n : IF n.id # c.id THEN n ELSE [n EXCEPT !.selected = c.selected])

RECURSIVE applyNodeChanges(_, _)
applyNodeChanges(changes, ns) ==
    IF changes = <<>> THEN ns
    ELSE applyNodeChanges(Tail(changes), ApplyNodeChange(ns, Head(changes)))

----------------------------------------------------------------------------
(* Relationships, dependencies and their projection to edges *)

Relationship(id, sourceTableId, sourceFieldId, targetTableId, targetFieldId) ==
    [id |-> id, sourceTableId |-> sourceTableId, sourceFieldId |-> sourceFieldId,
     targetTableId |-> targetTableId, targetFieldId |-> targetFieldId]

Dependency(id, tableId, dependentTableId) ==
    [id |-> id, tableId |-> tableId, dependentTableId |-> dependentTableId]

\* a handle id is the list of the pieces its string splits into at "_"; the
\* prefixes of the handle ids
LEFT_HANDLE_ID_PREFIX == <<"left", "rel">>
TARGET_ID_PREFIX == <<"target", "rel">>
TOP_SOURCE_HANDLE_ID_PREFIX == <<"top", "dep">>
BOTTOM_SOURCE_HANDLE_ID_PREFIX == <<"bottom", "dep">>
TARGET_DEP_PREFIX == <<"target", "dep">>

\* the key of a relationship in targetIndexes: the two ids, concatenated
TargetKey(r) == r.targetTableId \o r.targetFieldId

\* the value of targetIndexes[key]++ at relationship i: the number of
\* relationships before it that have the same key
TargetIndex(rels, i) ==
    Cardinality({j \in 1..(i - 1) : TargetKey(rels[j]) = TargetKey(rels[i])})

\* the value of targetDepIndexes[dep.tableId]++ at dependency i
TargetDepIndex(deps, i) ==
    Cardinality({j \in 1..(i - 1) : deps[j].tableId = deps[i].tableId})

\* the dialect that shows dependency edges whatever the preference is
CLICKHOUSE == "clickhouse"

RelationshipEdge(rels, i) ==
    [id |-> rels[i].id,
     type |-> "relationship-edge",
     source |-> rels[i].sourceTableId,
     target |-> rels[i].targetTableId,
     sourceHandle |-> [prefix |-> LEFT_HANDLE_ID_PREFIX, index |-> 0,
                       id |-> rels[i].sourceFieldId],
     targetHandle |-> [prefix |-> TARGET_ID_PREFIX, index |-> TargetIndex(rels, i),
                       id |-> rels[i].targetFieldId],
     data |-> rels[i],
     hidden |-> FALSE,
     selected |-> FALSE,
     highlighted |-> FALSE,
     animated |-> FALSE,
     zIndex |-> 0]

\* (the dependency edge hidden by the preference alone)
DependencyEdge_PreferenceOnly(deps, i, showDependencies, dialect) ==
    [id |-> deps[i].id,
     type |-> "dependency-edge",
     source |-> deps[i].dependentTableId,
     target |-> deps[i].tableId,
     sourceHandle |-> [prefix |-> TOP_SOURCE_HANDLE_ID_PREFIX, index |-> 0,
                       id |-> deps[i].dependentTableId],
     targetHandle |-> [prefix |-> TARGET_DEP_PREFIX, index |-> TargetDepIndex(deps, i),
                       id |-> deps[i].tableId],
     data |-> deps[i],
     hidden |-> ~showDependencies,
     selected |-> FALSE,
     highlighted |-> FALSE,
     animated |-> FALSE,
     zIndex |-> 0]

DependencyEdge(deps, i, showDependencies, dialect) ==
    [id |-> deps[i].id,
     type |-> "dependency-edge",
     source |-> deps[i].dependentTableId,
     target |-> deps[i].tableId,
     sourceHandle |-> [prefix |-> TOP_SOURCE_HANDLE_ID_PREFIX, index |-> 0,
                       id |-> deps[i].dependentTableId],
     targetHandle |-> [prefix |-> TARGET_DEP_PREFIX, index |-> TargetDepIndex(deps, i),
                       id |-> deps[i].tableId],
     data |-> deps[i],
     hidden |-> ~showDependencies /\ dialect # CLICKHOUSE,
     selected |-> FALSE,
     highlighted |-> FALSE,
     animated |-> FALSE,
     zIndex |-> 0]

\* the edge projection effect: the list it passes to setEdges
ProjectEdges(rels, deps, showDependencies, dialect) ==
    [i \in 1..Len(rels) |-> RelationshipEdge(rels, i)]
    \o [i \in 1..Len(deps) |-> DependencyEdge(deps, i, showDependencies, dialect)]

\* the ids of the edges the highlight effect highlights
AllSelectedEdges(storeEdges, tableIds, edgeIds) ==
    ChangeIds(SelectSeq(storeEdges,
                        LAMBDA e : Includes(tableIds, e.source) \/ Includes(tableIds, e.target)))
    \o edgeIds

\* the edge highlight effect: the updater it passes to setEdges
HighlightEdges(es, allSelectedEdges) ==
    MapSeq(es, LAMBDA e : [e EXCEPT !.highlighted = Includes(allSelectedEdges, e.id),
                                    !.animated = Includes(allSelectedEdges, e.id),
                                    !.zIndex = IF Includes(allSelectedEdges, e.id) THEN 1 ELSE 0])

\* the rendering surface's applyEdgeChanges, one change
ApplyEdgeChange(es, c) ==
    CASE c.type = "remove" -> SelectSeq(es, LAMBDA e : e.id # c.id)
      [] c.type = "select" ->
            MapSeq(es, LAMBDA e : IF e.id # c.id THEN e ELSE [e EXCEPT !.selected = c.selected])
      [] OTHER -> es

RECURSIVE applyEdgeChanges(_, _)
applyEdgeChanges(changes, es) ==
    IF changes = <<>> THEN es
    ELSE applyEdgeChanges(Tail(changes), ApplyEdgeChange(es, Head(changes)))

\* (the live edges that any change names)
EdgesToRemove_AnyChange(changesToApply, storeEdges) ==
    LET live == SelectSeq(changesToApply, LAMBDA c : HasId(storeEdges, c.id))
    IN  MapSeq(live, LAMBDA c : FindId(storeEdges, c.id))

\* onEdgesChangeHandler: the live edges the remove changes name
EdgesToRemove(changesToApply, storeEdges) ==
    LET removeChanges == SelectSeq(changesToApply, LAMBDA c : c.type = "remove")
        live == SelectSeq(removeChanges, LAMBDA c : HasId(storeEdges, c.id))
    IN  MapSeq(live, LAMBDA c : FindId(storeEdges, c.id))

\* domain store: removeRelationships / removeDependencies drop the ids given
RemoveIds(s, ids) == SelectSeq(s, LAMBDA e : ~Includes(ids, e.id))

----------------------------------------------------------------------------
(* The connect gesture *)

\* String.prototype.startsWith on a handle id
StartsWith(handle, prefix) ==
    Len(handle) >= Len(prefix) /\ SubSeq(handle, 1, Len(prefix)) = prefix

\* handle?.split('_')?.pop() ?? '': the last piece of the handle id
LastPiece(handle) == IF handle = <<>> THEN "" ELSE handle[Len(handle)]

\* domain store: the field lookup by (tableId, fieldId)
HasField(tbls, tableId, fieldId) ==
    HasId(tbls, tableId) /\ HasId(FindId(tbls, tableId).fields, fieldId)

getField(tbls, tableId, fieldId) == FindId(FindId(tbls, tableId).fields, fieldId)

\* the types a dialect lets a relationship join: a type with itself, and in
\* every dialect but one the two integer types with each other
areFieldTypesCompatible(type1, type2, dialect) ==
    \/ type1 = type2
    \/ dialect # "sqlite" /\ {type1, type2} = {"int", "bigint"}

\* (the handler without its test of the field types)
ConnectCalls_Unchecked(params, tbls, dialect) ==
    IF \/ StartsWith(params.sourceHandle, TOP_SOURCE_HANDLE_ID_PREFIX)
       \/ StartsWith(params.sourceHandle, BOTTOM_SOURCE_HANDLE_ID_PREFIX)
    THEN <<Call("createDependency", <<params.target, params.source>>, NoData)>>
    ELSE IF ~HasField(tbls, params.source, LastPiece(params.sourceHandle))
            \/ ~HasField(tbls, params.target, LastPiece(params.targetHandle))
         THEN <<>>
         ELSE <<Call("createRelationship",
                     <<params.source, LastPiece(params.sourceHandle),
                       params.target, LastPiece(params.targetHandle)>>, NoData)>>

\* (the handler with the two ends of a dependency exchanged)
ConnectCalls_Exchanged(params, tbls, dialect) ==
    IF \/ StartsWith(params.sourceHandle, TOP_SOURCE_HANDLE_ID_PREFIX)
       \/ StartsWith(params.sourceHandle, BOTTOM_SOURCE_HANDLE_ID_PREFIX)
    THEN <<Call("createDependency", <<params.source, params.target>>, NoData)>>
    ELSE LET sourceFieldId == LastPiece(params.sourceHandle)
             targetFieldId == LastPiece(params.targetHandle)
         IN  IF ~HasField(tbls, params.source, sourceFieldId)
                \/ ~HasField(tbls, params.target, targetFieldId)
             THEN <<>>
             ELSE IF ~areFieldTypesCompatible(
                          getField(tbls, params.source, sourceFieldId).type,
                          getField(tbls, params.target, targetFieldId).type,
                          dialect)
                  THEN <<Call("toast", <<>>, NoData)>>
                  ELSE <<Call("createRelationship",
                              <<params.source, sourceFieldId, params.target, targetFieldId>>,
                              NoData)>>

\* onConnectHandler: the calls it makes. createDependency carries <<tableId,
\* dependentTableId>>, createRelationship <<sourceTableId, sourceFieldId,
\* targetTableId, targetFieldId>>
ConnectCalls(params, tbls, dialect) ==
    IF \/ StartsWith(params.sourceHandle, TOP_SOURCE_HANDLE_ID_PREFIX)
       \/ StartsWith(params.sourceHandle, BOTTOM_SOURCE_HANDLE_ID_PREFIX)
    THEN <<Call("createDependency", <<params.target, params.source>>, NoData)>>
    ELSE LET sourceFieldId == LastPiece(params.sourceHandle)
             targetFieldId == LastPiece(params.targetHandle)
         IN  IF ~HasField(tbls, params.source, sourceFieldId)
                \/ ~HasField(tbls, params.target, targetFieldId)
             THEN <<>>
             ELSE IF ~areFieldTypesCompatible(
                          getField(tbls, params.source, sourceFieldId).type,
                          getField(tbls, params.target, targetFieldId).type,
                          dialect)
                  THEN <<Call("toast", <<>>, NoData)>>
                  ELSE <<Call("createRelationship",
                              <<params.source, sourceFieldId, params.target, targetFieldId>>,
                              NoData)>>

\* the ids the domain store gives the relationships and dependencies it creates
NewRelationshipIds == <<"r2", "r3", "r4", "r5">>
NewDependencyIds == <<"d2", "d3", "d4", "d5">>

\* domain store: createRelationship / createDependency append the new entity
CreateRelationships(rels, cs, n) ==
    rels \o MapSeq(SelectSeq(cs, LAMBDA c : c.op = "createRelationship"),
                   LAMBDA c : Relationship(NewRelationshipIds[n], c.ids[1], c.ids[2],
                                           c.ids[3], c.ids[4]))

CreateDependencies(deps, cs, n) ==
    deps \o MapSeq(SelectSeq(cs, LAMBDA c : c.op = "createDependency"),
                   LAMBDA c : Dependency(NewDependencyIds[n], c.ids[1], c.ids[2]))

----------------------------------------------------------------------------
(* Debounce timers and the overlap settle *)

\* the settle delay of the overlap recomputation, in milliseconds
SettleDelay == 200

\* the step of the model's clock
TickMs == SettleDelay \div 2

\* one pending call of a debounced function: gen identifies the debounced
\* function (one is created per render), nodes and overlapGraph are what the
\* debounced callback captured; burst names the burst of batches the call
\* belongs to
Timer(site, positionIds, sizeIds, closure, burst) ==
    [site |-> site, gen |-> closure.gen, left |-> SettleDelay, burst |-> burst,
     positionIds |-> positionIds, sizeIds |-> sizeIds,
     nodes |-> closure.nodes, overlapGraph |-> closure.overlapGraph]

\* debounce: a call replaces the pending call of the same debounced function
Schedule(ts, t) ==
    SelectSeq(ts, LAMBDA u : ~(u.site = t.site /\ u.gen = t.gen)) \o <<t>>

RECURSIVE SettleFold(_, _, _, _)
\* the loops of updateOverlappingGraphOnChanges over the change ids
SettleFold(g, ids, liveNodes, closureNodes) ==
    IF ids = <<>> THEN g
    ELSE LET id == Head(ids)
             skip == ~HasId(liveNodes, id) \/ FindId(liveNodes, id).type # "table"
         IN  SettleFold(
                 IF skip THEN g
                 ELSE findTableOverlapping(FindId(liveNodes, id),
                                           VisibleTableNodes(closureNodes), g),
                 Tail(ids), liveNodes, closureNodes)

\* (the update with the changed node as the closure holds it)
updateOverlappingGraphOnChanges_ClosureNode(t, liveNodes) ==
    SettleFold(t.overlapGraph, t.positionIds \o t.sizeIds, t.nodes, t.nodes)

\* updateOverlappingGraphOnChanges: the graph it sets
updateOverlappingGraphOnChanges(t, liveNodes) ==
    SettleFold(t.overlapGraph, t.positionIds \o t.sizeIds, liveNodes, t.nodes)

----------------------------------------------------------------------------
(* Effects, in the order the component declares them *)

EffectOrder ==
    <<"edgeProjection", "selectNodes", "selectEdges", "highlight", "nodeProjection",
      "filterChange">>

EffectIndex(e) == CHOOSE i \in 1..Len(EffectOrder) : EffectOrder[i] = e

\* the effect e is the next to run
IsNextEffect(e) ==
    /\ ~dirty
    /\ e \in pending
    /\ \A f \in pending : EffectIndex(e) <= EffectIndex(f)

Quiescent == ~dirty /\ pending = {}

\* a user interaction or a timer is served when the component has rendered,
\* run its effects, and no timer is due
Idle ==
    /\ Quiescent
    /\ \A i \in 1..Len(timers) : timers[i].left > 0
    /\ \A i \in 1..Len(filterTimers) : filterTimers[i].left > 0

\* the burst of a batch that arrives now: the burst of the batch before it when
\* that one's settle is still pending (it came less than the settle delay
\* ago), else a new burst
BurstNow ==
    IF \E i \in 1..Len(timers) : timers[i].site = "settle"
    THEN timers[Len(timers)].burst
    ELSE steps + 1

----------------------------------------------------------------------------
(* What the environment supplies *)

TableIds == {"t1", "t2"}

\* the ids a node change may name: the tables, the area, and a stale id
NodeIds == TableIds \cup {"a1", "zz"}

InitTables ==
    <<Table("t1", Num(0), Num(0), <<Field("f1", "int"), Field("f3", "varchar")>>),
      Table("t2", Num(12), Num(0), <<Field("f2", "bigint")>>)>>

InitAreas == <<Area("a1", Num(0), Num(20))>>

\* payloads of a position change: none, (1.5, 1), (NaN, 1), (+Infinity, undefined)
Positions ==
    {NoPosition, Position(Num(3), Num(2)), Position(NaN, Num(2)), Position(PosInf, Undef)}

NodeChanges ==
    {PositionChange(id, d, p) : id \in TableIds, d \in BOOLEAN, p \in Positions}
    \cup {PositionChange("a1", d, p) : d \in BOOLEAN,
                                       p \in {Position(Num(3), Num(2)), Position(PosInf, Undef)}}
    \cup {DimensionsChange(id, r, Dimensions(Num(6), Num(6))) :
              id \in TableIds \cup {"a1"}, r \in BOOLEAN}
    \cup {RemoveChange(id) : id \in NodeIds}
    \cup {PositionChange("zz", FALSE, Position(Num(3), Num(2))),
          DimensionsChange("zz", TRUE, Dimensions(Num(6), Num(6)))}
    \cup {PositionChange("t1", FALSE, Position(Num(40), Num(0)))}

\* the changes that come in pairs
PairedChanges ==
    {PositionChange("t1", d, Position(Num(3), Num(2))) : d \in BOOLEAN}
    \cup {PositionChange("t2", FALSE, Position(Num(3), Num(2))),
          DimensionsChange("t1", TRUE, Dimensions(Num(6), Num(6))),
          RemoveChange("t2"),
          RemoveChange("a1")}

NodeBatches ==
    {<<c>> : c \in NodeChanges}
    \cup {p \in PairedChanges \X PairedChanges : p[1] # p[2]}

\* the batches of edge changes: r1 and d1 are the edges, zz is a stale id
EdgeBatches ==
    {<<RemoveChange(id)>> : id \in {"r1", "d1", "zz"}}
    \cup {<<RemoveChange("d1"), RemoveChange("r1")>>, <<SelectChange("r1", TRUE)>>}

\* the ids a handle may end in: the fields of the tables, and a stale id
FieldIds == {"f1", "f2", "f3", "zz"}

\* the connect gestures: from a field handle or a dependency handle of the
\* source, to a field handle or the dependency handle of the target
Gestures ==
    [source : TableIds,
     target : TableIds,
     sourceHandle : {LEFT_HANDLE_ID_PREFIX \o <<f>> : f \in FieldIds}
                    \cup {TOP_SOURCE_HANDLE_ID_PREFIX \o <<t>> : t \in TableIds}
                    \cup {BOTTOM_SOURCE_HANDLE_ID_PREFIX \o <<t>> : t \in TableIds},
     targetHandle : {TARGET_ID_PREFIX \o <<"0", f>> : f \in FieldIds}
                    \cup {TARGET_DEP_PREFIX \o <<"0", t>> : t \in TableIds}]

\* the positions another component of the editor gives a table
DomainPositions ==
    {[x |-> Num(6), y |-> Num(0)], [x |-> NaN, y |-> Undef], [x |-> NegInf, y |-> Num(0)]}

----------------------------------------------------------------------------
(* TableField: one field row of the side panel and its debounced writer *)

\* the wait of the debounced writer, in ms
FieldDelay == 200

\* the field the element shows (the attributes the element edits)
InitField ==
    [name |-> "id", type |-> "int", nullable |-> FALSE, primaryKey |-> FALSE,
     unique |-> FALSE]

\* the element once mounted: timer is the pending call of the debounced
\* writer (none, or one with its argument and the time left), writes the
\* updateField calls made, torn the call that was pending at teardown, since
\* the time since teardown
FieldMounted ==
    [mounted |-> TRUE, field |-> InitField, localName |-> InitField.name,
     timer |-> <<>>, writes |-> <<>>, torn |-> <<>>, since |-> 0]

\* (a debounce on the leading edge: the call is made at once)
FieldSchedule_Leading(value) == <<[left |-> 0, value |-> value]>>

\* debounce: a call replaces the pending call and restarts the wait
FieldSchedule(value) == <<[left |-> FieldDelay, value |-> value]>>

\* (a cleanup that cancels nothing)
FieldCleanup_Kept(timer) == timer

\* the cleanup of the unmount effect: debouncedUpdateRef.current.cancel()
FieldCleanup(timer) == <<>>

\* updateField of the domain store: the attributes given replace the field's
MergeField(field, value) ==
    [k \in DOMAIN field |-> IF k \in DOMAIN value THEN value[k] ELSE field[k]]

----------------------------------------------------------------------------
(* The state after the component has mounted *)

\* the state once the component has mounted on the given domain lists: its
\* effects have projected the nodes and the edges, nothing is selected
Mounted(tbls, ars, rels, deps) ==
    /\ tableField = FieldMounted
    /\ prevFilteredSchemas = NoFilter
    /\ filterTimers = <<>>
    /\ tables = tbls
    /\ areas = ars
    /\ relationships = rels
    /\ dependencies = deps
    /\ filteredSchemas = NoFilter
    /\ overlapGraph = findOverlappingTables(tbls)
    /\ nodes = ProjectNodes(tbls, ars, <<>>, NoFilter, findOverlappingTables(tbls))
    /\ edges = ProjectEdges(rels, deps, showDependenciesOnCanvas, databaseType)
    /\ selectedTableIds = <<>>
    /\ selectedRelationshipIds = <<>>
    /\ rendered = [nodes |-> ProjectNodes(tbls, ars, <<>>, NoFilter, findOverlappingTables(tbls)),
                   overlapGraph |-> findOverlappingTables(tbls),
                   filteredSchemas |-> NoFilter,
                   gen |-> 0]
    /\ dirty = FALSE
    /\ pending = {}
    /\ timers = <<>>
    /\ settles = <<>>
    /\ calls = <<>>
    /\ forwarded = <<>>
    /\ last = [op |-> "mount", input |-> <<>>]
    /\ steps = 0

InitRelationships == <<Relationship("r1", "t1", "f1", "t2", "f2")>>

InitDependencies == <<Dependency("d1", "t2", "t1")>>

Init ==
    /\ readonly \in BOOLEAN
    /\ databaseType = "postgresql"
    /\ showDependenciesOnCanvas = TRUE
    /\ Mounted(InitTables, InitAreas, InitRelationships, InitDependencies)

----------------------------------------------------------------------------
(* Rendering and effects *)

\* a render: the callbacks and effects of the component capture the state
Render ==
    /\ dirty
    /\ dirty' = FALSE
    /\ rendered' = [nodes |-> nodes, overlapGraph |-> overlapGraph,
                    filteredSchemas |-> filteredSchemas, gen |-> rendered.gen + 1]
    /\ last' = [op |-> "render", input |-> <<>>]
    /\ UNCHANGED <<config, tableField, filterSite, tables, areas, relationships, dependencies, nodes, edges,
                   selectedTableIds, selectedRelationshipIds, overlapGraph, pending,
                   timers, settles, calls, forwarded, steps>>

\* the effect that derives selectedTableIds from the nodes' selection flags
SelectedNodesEffect ==
    /\ IsNextEffect("selectNodes")
    /\ LET selectedNodesIds == ChangeIds(SelectSeq(nodes, LAMBDA n : n.selected))
       IN  IF selectedNodesIds = selectedTableIds
           THEN /\ pending' = pending \ {"selectNodes"}
                /\ UNCHANGED <<selectedTableIds, dirty>>
           ELSE /\ selectedTableIds' = selectedNodesIds
                /\ pending' = (pending \ {"selectNodes"}) \cup {"selectNodes", "highlight"}
                /\ dirty' = TRUE
    /\ last' = [op |-> "selectNodes", input |-> <<>>]
    /\ UNCHANGED <<config, tableField, filterSite, tables, areas, relationships, dependencies, nodes, edges,
                   selectedRelationshipIds, overlapGraph, rendered, timers, settles,
                   calls, forwarded, steps>>

\* the node projection effect: setNodes with the projection of the domain lists
NodeProjectionEffect ==
    /\ IsNextEffect("nodeProjection")
    /\ nodes' = ProjectNodes(tables, areas, nodes, filteredSchemas, overlapGraph)
    /\ pending' = (pending \ {"nodeProjection"}) \cup {"selectNodes"}
    /\ dirty' = TRUE
    /\ last' = [op |-> "nodeProjection", input |-> <<>>]
    /\ UNCHANGED <<config, tableField, filterSite, tables, areas, relationships, dependencies, edges,
                   selectedTableIds, selectedRelationshipIds, overlapGraph, rendered,
                   timers, settles, calls, forwarded, steps>>

\* the edge projection effect: setEdges with the projection of the domain lists
EdgeProjectionEffect ==
    /\ IsNextEffect("edgeProjection")
    /\ edges' = ProjectEdges(relationships, dependencies, showDependenciesOnCanvas, databaseType)
    /\ pending' = (pending \ {"edgeProjection"}) \cup {"selectEdges"}
    /\ dirty' = TRUE
    /\ last' = [op |-> "edgeProjection", input |-> <<>>]
    /\ UNCHANGED <<config, tableField, filterSite, tables, areas, relationships, dependencies, nodes,
                   selectedTableIds, selectedRelationshipIds, overlapGraph, rendered,
                   timers, settles, calls, forwarded, steps>>

\* the effect that derives selectedRelationshipIds from the edges' selection flags
SelectedEdgesEffect ==
    /\ IsNextEffect("selectEdges")
    /\ LET selectedEdgesIds == ChangeIds(SelectSeq(edges, LAMBDA e : e.selected))
       IN  IF selectedEdgesIds = selectedRelationshipIds
           THEN /\ pending' = pending \ {"selectEdges"}
                /\ UNCHANGED <<selectedRelationshipIds, dirty>>
           ELSE /\ selectedRelationshipIds' = selectedEdgesIds
                /\ pending' = (pending \ {"selectEdges"}) \cup {"selectEdges", "highlight"}
                /\ dirty' = TRUE
    /\ last' = [op |-> "selectEdges", input |-> <<>>]
    /\ UNCHANGED <<config, tableField, filterSite, tables, areas, relationships, dependencies, nodes, edges,
                   selectedTableIds, overlapGraph, rendered, timers, settles, calls,
                   forwarded, steps>>

\* the edge highlight effect
HighlightEffect ==
    /\ IsNextEffect("highlight")
    /\ edges' = HighlightEdges(edges, AllSelectedEdges(edges, selectedTableIds,
                                                       selectedRelationshipIds))
    /\ pending' = (pending \ {"highlight"}) \cup {"selectEdges"}
    /\ dirty' = TRUE
    /\ last' = [op |-> "highlight", input |-> <<>>]
    /\ UNCHANGED <<config, tableField, filterSite, tables, areas, relationships, dependencies, nodes,
                   selectedTableIds, selectedRelationshipIds, overlapGraph, rendered,
                   timers, settles, calls, forwarded, steps>>

----------------------------------------------------------------------------
(* Node changes *)

\* onNodesChangeHandler for one batch of changes
OnNodesChange(changes) ==
    LET sanitized == MapSeq(changes, LAMBDA c : SanitizeChange(c, nodes))
        changesToApply == ReadonlyFilter(sanitized, readonly)
        tableRel == findRelevantNodesChanges(changesToApply, "table", nodes)
        areaRel == findRelevantNodesChanges(changesToApply, "area", nodes)
        patch == PatchesTables(tableRel)
        tableCalls ==
            IF patch
            THEN <<Call("updateTablesState", ChangeIds(tableRel.positionChanges), NoData),
                   Call("updateOverlappingGraphOnChangesDebounced",
                        ChangeIds(tableRel.positionChanges \o tableRel.sizeChanges), NoData)>>
            ELSE <<>>
        areaCalls == AreaCalls(areaRel)
    IN  /\ Idle
        /\ steps < MaxSteps
        /\ tables' = IF patch
                     THEN TablesUpdater(tables, tableRel.positionChanges, tableRel.removeChanges)
                     ELSE tables
        /\ timers' = IF patch
                     THEN Schedule(timers, Timer("settle",
                                                 ChangeIds(tableRel.positionChanges),
                                                 ChangeIds(tableRel.sizeChanges), rendered,
                                                 BurstNow))
                     ELSE timers
        /\ areas' = ApplyAreaCalls(areas, areaCalls)
        /\ nodes' = applyNodeChanges(changesToApply, nodes)
        /\ settles' = settles
        /\ calls' = tableCalls \o areaCalls
        /\ forwarded' = changesToApply
        /\ pending' = {"selectNodes"}
                      \cup (IF patch \/ areaCalls # <<>> THEN {"nodeProjection"} ELSE {})
        /\ dirty' = TRUE
        /\ last' = [op |-> "nodesChange", input |-> changes]
        /\ steps' = steps + 1
        /\ UNCHANGED <<config, tableField, filterSite, relationships, dependencies, edges, selectedTableIds,
                       selectedRelationshipIds, overlapGraph, rendered>>

NodesChange == \E changes \in NodeBatches : OnNodesChange(changes)

\* another component of the editor moves a table in the domain store
DomainMoveTable ==
    \E i \in 1..Len(tables), p \in DomainPositions :
        /\ Idle
        /\ steps < MaxSteps
        /\ tables' = [tables EXCEPT ![i] = [@ EXCEPT !.x = p.x, !.y = p.y]]
        /\ pending' = {"nodeProjection"}
        /\ dirty' = TRUE
        /\ calls' = <<>>
        /\ forwarded' = <<>>
        /\ last' = [op |-> "moveTable", input |-> <<tables[i].id>>]
        /\ steps' = steps + 1
        /\ UNCHANGED <<config, tableField, filterSite, areas, relationships, dependencies, nodes, edges,
                       selectedTableIds, selectedRelationshipIds, overlapGraph, rendered,
                       timers, settles>>

----------------------------------------------------------------------------
(* Edge changes *)

\* onEdgesChangeHandler for one batch of changes
OnEdgesChange(changes) ==
    LET changesToApply == ReadonlyFilter(changes, readonly)
        edgesToRemove == EdgesToRemove(changesToApply, edges)
        relationshipsToRemove ==
            ChangeIds(MapSeq(SelectSeq(edgesToRemove, LAMBDA e : e.type = "relationship-edge"),
                             LAMBDA e : e.data))
        dependenciesToRemove ==
            ChangeIds(MapSeq(SelectSeq(edgesToRemove, LAMBDA e : e.type = "dependency-edge"),
                             LAMBDA e : e.data))
    IN  /\ Idle
        /\ steps < MaxSteps
        /\ relationships' = RemoveIds(relationships, relationshipsToRemove)
        /\ dependencies' = RemoveIds(dependencies, dependenciesToRemove)
        /\ edges' = applyEdgeChanges(changesToApply, edges)
        /\ calls' = (IF Len(relationshipsToRemove) > 0
                     THEN <<Call("removeRelationships", relationshipsToRemove, NoData)>>
                     ELSE <<>>)
                    \o (IF Len(dependenciesToRemove) > 0
                        THEN <<Call("removeDependencies", dependenciesToRemove, NoData)>>
                        ELSE <<>>)
        /\ forwarded' = changesToApply
        /\ pending' = {"selectEdges"}
                      \cup (IF Len(relationshipsToRemove) > 0 \/ Len(dependenciesToRemove) > 0
                            THEN {"edgeProjection"} ELSE {})
        /\ dirty' = TRUE
        /\ last' = [op |-> "edgesChange", input |-> changes]
        /\ steps' = steps + 1
        /\ UNCHANGED <<config, tableField, filterSite, tables, areas, nodes, selectedTableIds,
                       selectedRelationshipIds, overlapGraph, rendered, timers, settles>>

EdgesChange == \E changes \in EdgeBatches : OnEdgesChange(changes)

----------------------------------------------------------------------------
(* Connect gestures *)

\* onConnectHandler for one gesture
OnConnect(params) ==
    /\ Idle
    /\ steps < MaxSteps
    /\ calls' = ConnectCalls(params, tables, databaseType)
    /\ relationships' = CreateRelationships(relationships, calls', steps + 1)
    /\ dependencies' = CreateDependencies(dependencies, calls', steps + 1)
    /\ IF relationships' # relationships \/ dependencies' # dependencies
       THEN pending' = {"edgeProjection"} /\ dirty' = TRUE
       ELSE UNCHANGED <<pending, dirty>>
    /\ forwarded' = <<>>
    /\ last' = [op |-> "connect", input |-> params]
    /\ steps' = steps + 1
    /\ UNCHANGED <<config, tableField, filterSite, tables, areas, nodes, edges, selectedTableIds,
                   selectedRelationshipIds, overlapGraph, rendered, timers, settles>>

Connect == \E params \in Gestures : OnConnect(params)

----------------------------------------------------------------------------
(* Time *)

\* time passes, by one step of the clock
Tick ==
    /\ Idle
    /\ timers # <<>> \/ filterTimers # <<>>
    /\ timers' = MapSeq(timers, LAMBDA t : [t EXCEPT !.left = IF @ > TickMs THEN @ - TickMs ELSE 0])
    /\ filterTimers' = MapSeq(filterTimers, LAMBDA t :
                            [t EXCEPT !.left = IF @ > TickMs THEN @ - TickMs ELSE 0])
    /\ settles' = settles
    /\ last' = [op |-> "tick", input |-> <<>>]
    /\ UNCHANGED <<config, tableField, prevFilteredSchemas, tables, areas, relationships, dependencies, nodes, edges,
                   selectedTableIds, selectedRelationshipIds, overlapGraph, rendered,
                   dirty, pending, calls, forwarded, steps>>

\* the timer of a debounced overlap update fires: updateOverlappingGraphOnChanges
FireSettle ==
    /\ Quiescent
    /\ timers # <<>>
    /\ Head(timers).left = 0
    /\ Head(timers).site = "settle"
    /\ timers' = Tail(timers)
    /\ IF Len(Head(timers).positionIds) > 0 \/ Len(Head(timers).sizeIds) > 0
       THEN /\ overlapGraph' = updateOverlappingGraphOnChanges(Head(timers), nodes)
            /\ settles' = Append(settles, Head(timers).burst)
            /\ pending' = {"nodeProjection"}
            /\ dirty' = TRUE
       ELSE UNCHANGED <<overlapGraph, settles, pending, dirty>>
    /\ last' = [op |-> "settle", input |-> Head(timers).positionIds \o Head(timers).sizeIds]
    /\ UNCHANGED <<config, tableField, filterSite, tables, areas, relationships, dependencies, nodes, edges,
                   selectedTableIds, selectedRelationshipIds, rendered, calls,
                   forwarded, steps>>

Next ==
    \/ Render
    \/ EdgeProjectionEffect
    \/ SelectedNodesEffect
    \/ SelectedEdgesEffect
    \/ HighlightEffect
    \/ NodeProjectionEffect
    \/ NodesChange
    \/ EdgesChange
    \/ DomainMoveTable
    \/ Tick
    \/ FireSettle

Spec == Init /\ [][Next]_vars

----------------------------------------------------------------------------
(* The connect gestures alone, under every dialect *)

InitConnect ==
    /\ readonly \in BOOLEAN
    /\ databaseType \in {"postgresql", "sqlite"}
    /\ showDependenciesOnCanvas = TRUE
    /\ Mounted(InitTables, InitAreas, InitRelationships, InitDependencies)

NextConnect ==
    \/ Render
    \/ EdgeProjectionEffect
    \/ SelectedEdgesEffect
    \/ Connect

SpecConnect == InitConnect /\ [][NextConnect]_vars

----------------------------------------------------------------------------
(* Edges and selection: relationships and dependencies are created by connect
   gestures between two tables whose ids and field ids concatenate alike, and
   nodes and edges are selected and removed *)

EdgeTables ==
    <<Table("a", Num(0), Num(0), <<Field("bc", "int")>>),
      Table("ab", Num(12), Num(0), <<Field("c", "int")>>)>>

EdgeGestures ==
    {[source |-> s[1], sourceHandle |-> LEFT_HANDLE_ID_PREFIX \o <<s[2]>>,
      target |-> t[1], targetHandle |-> TARGET_ID_PREFIX \o <<"0", t[2]>>] :
        s \in {<<"a", "bc">>, <<"ab", "c">>}, t \in {<<"a", "bc">>, <<"ab", "c">>}}
    \cup {[source |-> "a", sourceHandle |-> TOP_SOURCE_HANDLE_ID_PREFIX \o <<"a">>,
           target |-> "ab", targetHandle |-> TARGET_DEP_PREFIX \o <<"0", "ab">>]}

SelectionBatches ==
    {<<SelectChange(id, b)>> : id \in {"a", "ab"}, b \in BOOLEAN}

EdgeSelectionBatches ==
    {<<SelectChange(id, b)>> : id \in {"r2", "d2"}, b \in BOOLEAN}
    \cup {<<RemoveChange("r2")>>}

InitEdges ==
    /\ readonly = FALSE
    /\ databaseType = "postgresql"
    /\ showDependenciesOnCanvas = TRUE
    /\ Mounted(EdgeTables, <<>>, <<>>, <<>>)

ConnectEdges == \E params \in EdgeGestures : OnConnect(params)

SelectNodes == \E changes \in SelectionBatches : OnNodesChange(changes)

SelectEdges == \E changes \in EdgeSelectionBatches : OnEdgesChange(changes)

NextEdges ==
    \/ Render
    \/ EdgeProjectionEffect
    \/ SelectedNodesEffect
    \/ SelectedEdgesEffect
    \/ HighlightEffect
    \/ ConnectEdges
    \/ SelectNodes
    \/ SelectEdges

SpecEdges == InitEdges /\ [][NextEdges]_vars

----------------------------------------------------------------------------
(* Event consumer *)

\* a ChartDBEvent: tableIds of remove_tables; tableId and fields of add_field
\* and remove_field; tableId (data.id) and width (data.table.width) of
\* update_table; tables of add_tables and of load_diagram (data.diagram.tables)
Event(action, tableIds, tableId, fields, width, tbls) ==
    [action |-> action, tableIds |-> tableIds, tableId |-> tableId,
     fields |-> fields, width |-> width, tables |-> tbls]

\* JavaScript truthiness of a number or undefined
Truthy(c) == c.k = "inf" \/ (c.k = "num" /\ c.v # 0)

\* the nodes add_tables works on: those of the event's tables that the
\* rendering surface knows, that are not dragging and that are table nodes
NewNodes(event, storeNodes) ==
    LET known == SelectSeq(event.tables,
                           LAMBDA t : HasId(storeNodes, t.id)
                                      /\ ~FindId(storeNodes, t.id).dragging
                                      /\ FindId(storeNodes, t.id).type = "table")
    IN  MapSeq(known, LAMBDA t : FindId(storeNodes, t.id))

\* (a reduce that stops after the first node)
ReduceNewNodes_FirstOnly(g, newNodes, visibleNodes) ==
    IF newNodes = <<>> THEN g
    ELSE findTableOverlapping(Head(newNodes), visibleNodes, g)

RECURSIVE ReduceNewNodes(_, _, _)
ReduceNewNodes(g, newNodes, visibleNodes) ==
    IF newNodes = <<>> THEN g
    ELSE ReduceNewNodes(findTableOverlapping(Head(newNodes), visibleNodes, g),
                        Tail(newNodes), visibleNodes)

RECURSIVE ReduceRemoved(_, _)
ReduceRemoved(g, tableIds) ==
    IF tableIds = <<>> THEN g
    ELSE ReduceRemoved(removeVertex(g, Head(tableIds)), Tail(tableIds))

\* the branch that patches one table: the node is known and not dragging
PatchesNode(event, storeNodes) ==
    /\ HasId(storeNodes, event.tableId)
    /\ ~FindId(storeNodes, event.tableId).dragging

\* the measured size the branch computes for the node
EventMeasured(event, node) ==
    IF event.action = "update_table"
    THEN [node.measured EXCEPT !.width = event.width]
    ELSE [node.measured EXCEPT !.height = calcTableHeight(Len(event.fields))]

\* eventConsumer without its tests of node.dragging
EventWrites_IgnoringDrag(event, storeNodes) ==
    CASE event.action = "add_tables" ->
             \E i \in 1..Len(event.tables) :
                 /\ HasId(storeNodes, event.tables[i].id)
                 /\ FindId(storeNodes, event.tables[i].id).type = "table"
      [] event.action = "remove_tables" -> TRUE
      [] event.action \in {"add_field", "remove_field"} ->
             HasId(storeNodes, event.tableId)
      [] event.action = "update_table" ->
             Truthy(event.width) /\ HasId(storeNodes, event.tableId)
      [] event.action = "load_diagram" -> TRUE
      [] OTHER -> FALSE

\* whether eventConsumer calls setOverlapGraph
EventWrites(event, storeNodes) ==
    CASE event.action = "add_tables" -> NewNodes(event, storeNodes) # <<>>
      [] event.action = "remove_tables" -> TRUE
      [] event.action \in {"add_field", "remove_field"} -> PatchesNode(event, storeNodes)
      [] event.action = "update_table" ->
             Truthy(event.width) /\ PatchesNode(event, storeNodes)
      [] event.action = "load_diagram" -> TRUE
      [] OTHER -> FALSE

\* eventConsumer: the graph it passes to setOverlapGraph, from the graph and
\* the nodes its closure holds and the nodes getNode finds
EventPatch(event, graph, closureNodes, storeNodes, filter) ==
    CASE event.action = "add_tables" ->
             ReduceNewNodes(graph, NewNodes(event, storeNodes),
                            VisibleTableNodes(closureNodes))
      [] event.action = "remove_tables" -> ReduceRemoved(graph, event.tableIds)
      [] event.action \in {"add_field", "remove_field", "update_table"} ->
             LET node == FindId(storeNodes, event.tableId)
             IN  findTableOverlapping(
                     [node EXCEPT !.measured = EventMeasured(event, node)],
                     VisibleTableNodes(closureNodes), graph)
      [] event.action = "load_diagram" ->
             findOverlappingTables(
                 SelectSeq(event.tables,
                           LAMBDA t : shouldShowTablesBySchemaFilter(t, filter)))
      [] OTHER -> graph

\* the setNodes updater of add_field and remove_field: data.measured of the node
PatchDataMeasured(ns, event, storeNodes) ==
    MapSeq(ns, LAMBDA n :
        IF n.id = event.tableId /\ n.type = "table"
        THEN [n EXCEPT !.dataMeasured =
                           EventMeasured(event, FindId(storeNodes, event.tableId))]
        ELSE n)

\* the change of the domain store's table list that the event reports
DomainAfter(event, tbls) ==
    CASE event.action = "add_tables" ->
             tbls \o SelectSeq(event.tables, LAMBDA t : ~HasId(tbls, t.id))
      [] event.action = "remove_tables" ->
             SelectSeq(tbls, LAMBDA t : ~Includes(event.tableIds, t.id))
      [] event.action \in {"add_field", "remove_field"} ->
             MapSeq(tbls, LAMBDA t : IF t.id = event.tableId
                                     THEN [t EXCEPT !.fields = event.fields] ELSE t)
      [] event.action = "update_table" ->
             MapSeq(tbls, LAMBDA t : IF t.id = event.tableId
                                     THEN [t EXCEPT !.width = event.width] ELSE t)
      [] event.action = "load_diagram" -> event.tables
      [] OTHER -> tbls

\* two overlapping tables
EventTables ==
    <<Table("t1", Num(0), Num(0), <<Field("f1", "int"), Field("f3", "varchar")>>),
      Table("t2", Num(2), Num(0), <<Field("f2", "bigint")>>)>>

\* the events the domain store can emit for the table list tbls
Events(tbls) ==
    {Event("remove_tables", <<id>>, "", <<>>, Undef, <<>>) : id \in TableIds}
    \cup {Event("add_field", <<>>, tbls[i].id, Append(tbls[i].fields, Field("f9", "int")),
                Undef, <<>>) : i \in 1..Len(tbls)}
    \cup {Event("remove_field", <<>>, tbls[i].id,
                SubSeq(tbls[i].fields, 1, Len(tbls[i].fields) - 1), Undef, <<>>) :
              i \in {j \in 1..Len(tbls) : tbls[j].id = "t1" /\ tbls[j].fields # <<>>}}
    \cup {Event("update_table", <<>>, id, <<>>, w, <<>>) :
              id \in TableIds, w \in {Num(1), Undef}}
    \cup {Event("add_tables", <<>>, "", <<>>, Undef, <<t>>) :
              t \in {Table("t3", Num(2), Num(2), <<>>), EventTables[1]}}
    \cup {Event("add_tables", <<>>, "", <<>>, Undef,
                <<EventTables[1], Table("t3", Num(2), Num(2), <<>>)>>)}
    \cup {Event("load_diagram", <<>>, "", <<>>, Undef,
                <<Table("t1", Num(0), Num(0), <<>>), Table("t2", Num(40), Num(0), <<>>)>>)}

\* a drag of t1 and its end
DragBatches ==
    {<<PositionChange("t1", d, Position(Num(2), Num(2)))>> : d \in BOOLEAN}

InitEvents ==
    /\ readonly = FALSE
    /\ databaseType = "postgresql"
    /\ showDependenciesOnCanvas = TRUE
    /\ Mounted(EventTables, InitAreas, <<>>, <<>>)

\* the domain store changes its table list and emits the event; the
\* subscription calls the eventConsumer of the last render, also when state
\* set in this turn has not been rendered yet
EventConsumer(event) ==
    LET writes == EventWrites(event, rendered.nodes)
        patches == writes /\ event.action \in {"add_field", "remove_field"}
    IN  /\ ~dirty => pending = {}
        /\ steps < MaxSteps
        /\ overlapGraph' = IF writes
                           THEN EventPatch(event, rendered.overlapGraph, rendered.nodes,
                                           rendered.nodes, rendered.filteredSchemas)
                           ELSE overlapGraph
        /\ nodes' = IF patches THEN PatchDataMeasured(nodes, event, rendered.nodes)
                    ELSE nodes
        /\ tables' = DomainAfter(event, tables)
        /\ calls' = IF writes THEN <<Call("setOverlapGraph", <<>>, NoData)>> ELSE <<>>
        /\ forwarded' = <<>>
        /\ pending' = pending \cup {"nodeProjection"}
                      \cup (IF patches THEN {"selectNodes"} ELSE {})
        /\ dirty' = TRUE
        /\ last' = [op |-> "event", input |-> event]
        /\ steps' = steps + 1
        /\ UNCHANGED <<config, tableField, filterSite, areas, relationships, dependencies, edges,
                       selectedTableIds, selectedRelationshipIds, rendered, timers,
                       settles>>

Emit == \E event \in Events(tables) : EventConsumer(event)

DragNodes == \E changes \in DragBatches : OnNodesChange(changes)

NextEvents ==
    \/ Render
    \/ SelectedNodesEffect
    \/ NodeProjectionEffect
    \/ Emit
    \/ DragNodes
    \/ Tick
    \/ FireSettle

SpecEvents == InitEvents /\ [][NextEvents]_vars

----------------------------------------------------------------------------
(* Visibility of dependency edges: the preference and the dialect vary *)

InitVisibility ==
    /\ readonly = FALSE
    /\ databaseType \in {"postgresql", CLICKHOUSE}
    /\ showDependenciesOnCanvas \in BOOLEAN
    /\ Mounted(InitTables, InitAreas, InitRelationships, InitDependencies)

\* the user switches the "show dependencies" preference: the edge projection
\* effect depends on it
ToggleDependencies ==
    /\ Idle
    /\ steps < MaxSteps
    /\ showDependenciesOnCanvas' = ~showDependenciesOnCanvas
    /\ pending' = {"edgeProjection"}
    /\ dirty' = TRUE
    /\ calls' = <<>>
    /\ forwarded' = <<>>
    /\ last' = [op |-> "toggleDependencies", input |-> <<>>]
    /\ steps' = steps + 1
    /\ UNCHANGED <<tableField, filterSite, readonly, filteredSchemas, databaseType, tables, areas, relationships,
                   dependencies, nodes, edges, selectedTableIds, selectedRelationshipIds,
                   overlapGraph, rendered, timers, settles>>

NextVisibility ==
    \/ Render
    \/ EdgeProjectionEffect
    \/ SelectedEdgesEffect
    \/ HighlightEffect
    \/ EdgesChange
    \/ Connect
    \/ ToggleDependencies

SpecVisibility == InitVisibility /\ [][NextVisibility]_vars

----------------------------------------------------------------------------
(* Schema filter *)

\* the wait of the filter-change effect's debounced recompute, in ms
FilterDelay == 500

\* tables of two schemas: t1 and t2 overlap, t3 overlaps t2
FilterTables ==
    <<Table("t1", Num(0), Num(0), <<Field("f1", "int")>>),
      Table("t2", Num(2), Num(0), <<Field("f2", "int")>>),
      [Table("t3", Num(2), Num(2), <<>>) EXCEPT !.schema = "audit"]>>

\* the filters the user can set
Filters ==
    {NoFilter} \cup {[on |-> TRUE, schemas |-> S] : S \in {{"public"}, {"audit"}}}

InitFilter ==
    /\ readonly = FALSE
    /\ databaseType = "postgresql"
    /\ showDependenciesOnCanvas = TRUE
    /\ Mounted(FilterTables, <<>>, <<>>, <<>>)

\* the user sets the schema filter: the node projection effect and the
\* filter-change effect depend on it
ChangeFilter ==
    \E filter \in Filters :
        /\ Idle
        /\ steps < MaxSteps
        /\ filter # filteredSchemas
        /\ filteredSchemas' = filter
        /\ pending' = {"nodeProjection", "filterChange"}
        /\ dirty' = TRUE
        /\ calls' = <<>>
        /\ forwarded' = <<>>
        /\ last' = [op |-> "changeFilter", input |-> filter]
        /\ steps' = steps + 1
        /\ UNCHANGED <<tableField, filterSite, readonly, databaseType,
                       showDependenciesOnCanvas, tables, areas, relationships,
                       dependencies, nodes, edges, selectedTableIds,
                       selectedRelationshipIds, overlapGraph, rendered, timers, settles>>

\* the filter-change effect: when the filter differs from the one it saw last,
\* it creates a debounced function, calls it once, and records the filter
FilterChangeEffect ==
    /\ IsNextEffect("filterChange")
    /\ pending' = pending \ {"filterChange"}
    /\ IF filteredSchemas # prevFilteredSchemas
       THEN /\ filterTimers' = Append(filterTimers,
                                      [left |-> FilterDelay, filter |-> filteredSchemas,
                                       tables |-> tables])
            /\ prevFilteredSchemas' = filteredSchemas
       ELSE UNCHANGED filterSite
    /\ last' = [op |-> "filterChangeEffect", input |-> <<>>]
    /\ UNCHANGED <<config, tableField, tables, areas, relationships, dependencies, nodes,
                   edges, selectedTableIds, selectedRelationshipIds, overlapGraph,
                   rendered, dirty, timers, settles, calls, forwarded, steps>>

\* a timer of the filter-change effect fires: the full recompute over the
\* tables the filter it captured shows
FireFilter ==
    /\ Quiescent
    /\ filterTimers # <<>>
    /\ Head(filterTimers).left = 0
    /\ overlapGraph' =
           findOverlappingTables(
               SelectSeq(Head(filterTimers).tables,
                         LAMBDA t : shouldShowTablesBySchemaFilter(
                                        t, Head(filterTimers).filter)))
    /\ filterTimers' = Tail(filterTimers)
    /\ calls' = <<Call("setOverlapGraph", <<>>, NoData), Call("fitView", <<>>, NoData)>>
    /\ forwarded' = <<>>
    /\ pending' = {"nodeProjection"}
    /\ dirty' = TRUE
    /\ last' = [op |-> "filterRecompute", input |-> Head(filterTimers).filter]
    /\ UNCHANGED <<config, tableField, prevFilteredSchemas, tables, areas, relationships,
                   dependencies, nodes, edges, selectedTableIds, selectedRelationshipIds,
                   rendered, timers, settles, steps>>

\* the domain store loads a diagram and emits load_diagram
LoadDiagram ==
    EventConsumer(Event("load_diagram", <<>>, "", <<>>, Undef, FilterTables))

NextFilter ==
    \/ Render
    \/ SelectedNodesEffect
    \/ NodeProjectionEffect
    \/ FilterChangeEffect
    \/ ChangeFilter
    \/ LoadDiagram
    \/ Tick
    \/ FireFilter

SpecFilter == InitFilter /\ [][NextFilter]_vars

----------------------------------------------------------------------------
(* The TableField element: edits, the debounced write, teardown *)

\* the state of the canvas, which the element does not touch
canvas ==
    <<tables, areas, relationships, dependencies, nodes, edges, selectedTableIds,
      selectedRelationshipIds, overlapGraph, rendered, dirty, pending, timers, settles,
      calls, forwarded, filterSite>>

FieldNames == {"id", "idx"}

FieldTypes == {"int", "varchar"}

\* a handler of the element passes value to the debounced writer
FieldEdit(op, value) ==
    /\ tableField.mounted
    /\ steps < MaxSteps
    /\ tableField' = [tableField EXCEPT !.timer = FieldSchedule(value)]
    /\ last' = [op |-> op, input |-> value]
    /\ steps' = steps + 1
    /\ UNCHANGED <<config, canvas>>

\* handleFieldNameChange: the local name follows the typing at once
HandleFieldNameChange ==
    \E newValue \in FieldNames :
        /\ tableField.mounted
        /\ steps < MaxSteps
        /\ tableField' = [tableField EXCEPT !.localName = newValue,
                                            !.timer = FieldSchedule([name |-> newValue])]
        /\ last' = [op |-> "fieldName", input |-> [name |-> newValue]]
        /\ steps' = steps + 1
        /\ UNCHANGED <<config, canvas>>

\* handleDataTypeChange, for the types without a maximum length
HandleDataTypeChange ==
    \E type \in FieldTypes : FieldEdit("fieldType", [type |-> type])

\* the nullable toggle
ToggleNullable ==
    \E value \in BOOLEAN : FieldEdit("fieldNullable", [nullable |-> value])

\* the primary key toggle
TogglePrimaryKey ==
    \E value \in BOOLEAN :
        FieldEdit("fieldPrimaryKey", [unique |-> value, primaryKey |-> value])

\* time passes for the element, by one step of the clock
FieldTick ==
    /\ \/ tableField.timer # <<>> /\ tableField.timer[1].left > 0
       \/ tableField.timer = <<>> /\ ~tableField.mounted /\ tableField.since < 2 * FieldDelay
    /\ tableField' =
           [tableField EXCEPT
              !.timer = MapSeq(@, LAMBDA t :
                            [t EXCEPT !.left = IF @ > TickMs THEN @ - TickMs ELSE 0]),
              !.since = IF tableField.mounted \/ @ >= 2 * FieldDelay THEN @ ELSE @ + TickMs]
    /\ last' = [op |-> "fieldTick", input |-> <<>>]
    /\ UNCHANGED <<config, canvas, steps>>

\* the wait of the debounced writer is over: updateField(value); the field
\* comes back as a prop and the local name follows field.name
FieldFire ==
    /\ tableField.timer # <<>>
    /\ tableField.timer[1].left = 0
    /\ LET value == tableField.timer[1].value
           field == MergeField(tableField.field, value)
       IN  tableField' =
               [tableField EXCEPT
                  !.timer = <<>>,
                  !.writes = Append(@, value),
                  !.field = field,
                  !.localName = IF tableField.mounted /\ field.name # tableField.field.name
                                THEN field.name ELSE @]
    /\ last' = [op |-> "updateField", input |-> tableField.timer[1].value]
    /\ UNCHANGED <<config, canvas, steps>>

\* the element is torn down: the cleanup of its unmount effect runs
FieldUnmount ==
    /\ tableField.mounted
    /\ tableField' = [tableField EXCEPT !.mounted = FALSE,
                                        !.torn = tableField.timer,
                                        !.timer = FieldCleanup(tableField.timer)]
    /\ last' = [op |-> "fieldUnmount", input |-> <<>>]
    /\ UNCHANGED <<config, canvas, steps>>

NextField ==
    \/ HandleFieldNameChange
    \/ HandleDataTypeChange
    \/ ToggleNullable
    \/ TogglePrimaryKey
    \/ FieldTick
    \/ FieldFire
    \/ FieldUnmount

SpecField == Init /\ [][NextField]_vars

\* the element under the event loop's scheduling: time passes while a wait
\* is running, and a timer whose wait is over fires
SpecFieldFair == SpecField /\ WF_vars(FieldTick) /\ WF_vars(FieldFire)

----------------------------------------------------------------------------
(* Vocabulary of the properties *)

CallsOf(op) == SelectSeq(calls, LAMBDA c : c.op = op)

\* a live table node with the id
IsTableNode(ns, id) == HasId(ns, id) /\ FindId(ns, id).type = "table"

\* the terminal position changes of a batch that carry a position for the id
TerminalWrites(batch, id) ==
    {i \in 1..Len(batch) : /\ batch[i].type = "position"
                           /\ batch[i].id = id
                           /\ ~batch[i].dragging
                           /\ batch[i].position.has}

SetMax(S) == CHOOSE m \in S : \A n \in S : n <= m

\* a payload coordinate, or the node's current one when it is not a number
FinalCoord(v, cur) == IF v.k \in {"nan", "undef"} THEN cur ELSE v

XY(s, id) == [x |-> FindId(s, id).x, y |-> FindId(s, id).y]

----------------------------------------------------------------------------
(* C1 *)

\* C1 (as amended): for every table node, a batch without a terminal position
\* change for the table leaves the table's x/y as they are, and a batch of
\* dragging position changes alone makes no updateTablesState call; a batch
\* with a terminal position change that carries a position makes exactly one
\* updateTablesState call, after which the table (unless the batch removes it)
\* has the final position rounded to the nearest integer, a coordinate that is
\* not a number being first replaced by the node's current one.
C1_DragNeverWritesTerminalWritesRounded ==
    [][last'.op = "nodesChange" =>
        /\ (\A i \in 1..Len(last'.input) :
                last'.input[i].type = "position" /\ last'.input[i].dragging)
           => Len(SelectSeq(calls', LAMBDA c : c.op = "updateTablesState")) = 0
        /\ \A id \in TableIds :
            IsTableNode(nodes, id) =>
                LET term == TerminalWrites(last'.input, id)
                IN  /\ (term = {} /\ HasId(tables, id) /\ HasId(tables', id))
                       => XY(tables', id) = XY(tables, id)
                    /\ term # {}
                       => Len(SelectSeq(calls', LAMBDA c : c.op = "updateTablesState")) = 1
                    /\ (term # {} /\ HasId(tables', id))
                       => LET final == last'.input[SetMax(term)].position
                              node == FindId(nodes, id)
                          IN  XY(tables', id) =
                                [x |-> MathRound(FinalCoord(final.x, node.position.x)),
                                 y |-> MathRound(FinalCoord(final.y, node.position.y))]
    ]_vars

\* C1 (as first stated): the call of a terminal position change sets the table's x/y
\* to the final position itself
C1_TerminalWritesFinalPosition ==
    [][last'.op = "nodesChange" =>
        \A id \in TableIds :
            IsTableNode(nodes, id) =>
                LET term == TerminalWrites(last'.input, id)
                IN  (/\ term # {}
                     /\ HasId(tables', id)
                     /\ IsFinite(last'.input[SetMax(term)].position.x)
                     /\ IsFinite(last'.input[SetMax(term)].position.y))
                    => XY(tables', id) = [x |-> last'.input[SetMax(term)].position.x,
                                          y |-> last'.input[SetMax(term)].position.y]
    ]_vars

\* a drag of t1 has ended: the handler has served the terminal change at
\* (1.5, 1) for the node that was dragging, with one call, and t1 is at (2, 1)
C1_Witness ==
    /\ last.op = "nodesChange"
    /\ last.input = <<PositionChange("t1", FALSE, Position(Num(3), Num(2)))>>
    /\ IsTableNode(rendered.nodes, "t1")
    /\ FindId(rendered.nodes, "t1").dragging
    /\ Len(CallsOf("updateTablesState")) = 1
    /\ XY(tables, "t1") = [x |-> Num(4), y |-> Num(2)]

----------------------------------------------------------------------------
(* C2 *)

\* C2: while readonly is true, a batch of node or edge changes makes no
\* removeRelationships, removeDependencies or removeArea call, drops no table,
\* area, relationship or dependency of the domain store, and forwards no
\* remove change to the rendering surface
C2_ReadonlyBlocksRemoval ==
    readonly =>
        /\ \A i \in 1..Len(calls) :
               calls[i].op \notin {"removeRelationships", "removeDependencies", "removeArea"}
        /\ \A i \in 1..Len(forwarded) : forwarded[i].type # "remove"
        /\ ChangeIds(tables) = ChangeIds(InitTables)
        /\ ChangeIds(areas) = ChangeIds(InitAreas)
        /\ ChangeIds(relationships) = ChangeIds(InitRelationships)
        /\ ChangeIds(dependencies) = ChangeIds(InitDependencies)

\* read-only, the handler has served a batch that moves t1 and removes t2: the
\* tables were patched, and t2 is still there
C2_Witness ==
    /\ readonly
    /\ last.op = "nodesChange"
    /\ last.input = <<PositionChange("t1", FALSE, Position(Num(3), Num(2))), RemoveChange("t2")>>
    /\ Len(CallsOf("updateTablesState")) = 1
    /\ XY(tables, "t1") = [x |-> Num(4), y |-> Num(2)]
    /\ HasId(tables, "t2")
    /\ HasId(nodes, "t2")

----------------------------------------------------------------------------
(* C3 *)

\* C3: a connect gesture from the handle of an existing field to the handle
\* of an existing field makes, when the two types are not compatible under the
\* active dialect, no createRelationship call and one toast call, and the
\* domain store gets no relationship; when they are compatible, one
\* createRelationship call for the two fields and no toast call
C3_IncompatibleWarnsCompatibleCreates ==
    last.op = "connect" =>
        \A s, t \in 1..Len(tables) :
            \A i \in 1..Len(tables[s].fields), j \in 1..Len(tables[t].fields) :
                LET sf == tables[s].fields[i]
                    tf == tables[t].fields[j]
                IN  (/\ last.input.source = tables[s].id
                     /\ last.input.target = tables[t].id
                     /\ last.input.sourceHandle = LEFT_HANDLE_ID_PREFIX \o <<sf.id>>
                     /\ last.input.targetHandle = TARGET_ID_PREFIX \o <<"0", tf.id>>)
                    => IF areFieldTypesCompatible(sf.type, tf.type, databaseType)
                       THEN /\ calls = <<Call("createRelationship",
                                              <<tables[s].id, sf.id, tables[t].id, tf.id>>,
                                              NoData)>>
                            /\ HasId(relationships, NewRelationshipIds[steps])
                       ELSE /\ Len(CallsOf("createRelationship")) = 0
                            /\ Len(CallsOf("toast")) = 1
                            /\ Len(calls) = 1
                            /\ ~HasId(relationships, NewRelationshipIds[steps])

\* under the dialect that does not join int with bigint, t1.f1 (int) has been
\* connected to t2.f2 (bigint): one warning and nothing created
C3_Witness ==
    /\ last.op = "connect"
    /\ databaseType = "sqlite"
    /\ last.input = [source |-> "t1", sourceHandle |-> LEFT_HANDLE_ID_PREFIX \o <<"f1">>,
                     target |-> "t2", targetHandle |-> TARGET_ID_PREFIX \o <<"0", "f2">>]
    /\ calls = <<Call("toast", <<>>, NoData)>>
    /\ relationships = InitRelationships

----------------------------------------------------------------------------
(* C4 *)

\* C4: the relationship edges that target one (targetTableId, targetFieldId)
\* pair have the target handle indices 0..N-1 in input order, whatever the
\* ids are, and the dependency edges of one tableId the indices 0..M-1
C4_DenseHandleIndices ==
    last.op = "edgeProjection" =>
        \A i \in 1..Len(edges) :
            LET same(j) ==
                    /\ edges[j].type = edges[i].type
                    /\ IF edges[i].type = "relationship-edge"
                       THEN /\ edges[j].data.targetTableId = edges[i].data.targetTableId
                            /\ edges[j].data.targetFieldId = edges[i].data.targetFieldId
                       ELSE edges[j].data.tableId = edges[i].data.tableId
            IN  edges[i].targetHandle.index = Cardinality({j \in 1..(i - 1) : same(j)})

----------------------------------------------------------------------------
(* C5 *)

\* C5: in every quiescent state, an edge is highlighted exactly when it is
\* selected itself or its source or target table is selected
C5_HighlightedIffSelected ==
    Quiescent =>
        \A i \in 1..Len(edges) :
            edges[i].highlighted <=>
                \/ edges[i].selected
                \/ \E k \in 1..Len(nodes) :
                       /\ nodes[k].selected
                       /\ nodes[k].id \in {edges[i].source, edges[i].target}

----------------------------------------------------------------------------
(* C6 *)

\* C6: no visual node, table or area, has a non-finite position coordinate in
\* any reachable state
C6_NodePositionsFinite ==
    \A i \in 1..Len(nodes) :
        IsFinite(nodes[i].position.x) /\ IsFinite(nodes[i].position.y)

----------------------------------------------------------------------------
(* C7 *)

IsActiveChange(c) ==
    \/ c.type = "position" /\ c.dragging
    \/ c.type = "dimensions" /\ c.resizing

IsTerminalChange(c) ==
    \/ c.type = "position" /\ ~c.dragging
    \/ c.type = "dimensions" /\ ~c.resizing

\* C7: a batch for table nodes whose changes all carry an active dragging or
\* resizing flag schedules no overlap recomputation and makes no domain update;
\* a batch for table nodes with a terminal change schedules exactly one
\* overlap recomputation and makes exactly one domain update
C7_ActiveSilentTerminalOnce ==
    (last.op = "nodesChange"
     /\ \A i \in 1..Len(last.input) : IsTableNode(rendered.nodes, last.input[i].id))
    => /\ (\A i \in 1..Len(last.input) : IsActiveChange(last.input[i]))
          => /\ Len(CallsOf("updateTablesState")) = 0
             /\ Len(CallsOf("updateOverlappingGraphOnChangesDebounced")) = 0
       /\ (\E i \in 1..Len(last.input) : IsTerminalChange(last.input[i]))
          => /\ Len(CallsOf("updateTablesState")) = 1
             /\ Len(CallsOf("updateOverlappingGraphOnChangesDebounced")) = 1

----------------------------------------------------------------------------
(* C8 *)

\* C8: a burst of batches, each less than the settle delay after the one
\* before, results in at most one overlap settle that writes the overlap graph
C8_OneSettlePerBurst ==
    \A i, j \in 1..Len(settles) : i # j => settles[i] # settles[j]

----------------------------------------------------------------------------
(* C9 *)

\* C9: when an event follows another event, in the same turn or a later one,
\* the overlap graph after it is its patch applied to the graph the event
\* before it left (the graph stays as it is when the event writes none)
C9_EventsPatchInEmissionOrder ==
    [][(last.op = "event" /\ last'.op = "event") =>
          overlapGraph' =
              IF EventWrites(last'.input, rendered.nodes)
              THEN EventPatch(last'.input, overlapGraph, rendered.nodes,
                              rendered.nodes, filteredSchemas)
              ELSE overlapGraph]_vars

----------------------------------------------------------------------------
(* C10 *)

\* C10: after a projection pass, a table node that is neither dragging nor
\* resizing is at the x, y of its table (a coordinate of the table that is not
\* finite giving 0 or the coordinate rendered before), and a dragging node is
\* where it was rendered before
C10_DomainOwnsIdlePosition ==
    last.op = "nodeProjection" =>
        \A i \in 1..Len(tables) :
            LET t == tables[i]
                n == FindId(nodes, t.id)
                before == FindId(rendered.nodes, t.id).position
                owned(c, prev, now) == IF IsFinite(c) THEN now = c ELSE now \in {Num(0), prev}
            IN  HasId(rendered.nodes, t.id) =>
                    /\ (~n.dragging /\ ~n.resizing)
                       => /\ owned(t.x, before.x, n.position.x)
                          /\ owned(t.y, before.y, n.position.y)
                    /\ n.dragging => n.position = before


----------------------------------------------------------------------------
(* C11 *)

\* C11: while readonly is true, a connect gesture makes no createRelationship
\* and no createDependency call, adds nothing to the domain store, and shows
\* no toast
C11_ReadonlyBlocksConnect ==
    (readonly /\ last.op = "connect") =>
        /\ calls = <<>>
        /\ relationships = InitRelationships
        /\ dependencies = InitDependencies


----------------------------------------------------------------------------
(* C12 *)

\* the node the rendering surface holds for the event's table is dragging
EventNodeDragging(event) ==
    /\ HasId(rendered.nodes, event.tableId)
    /\ FindId(rendered.nodes, event.tableId).dragging

\* the event reports a new size of one table
IsSizeEvent(event) ==
    \/ event.action \in {"add_field", "remove_field"}
    \/ event.action = "update_table" /\ Truthy(event.width)

\* C12: after an add_field, remove_field or update_table(width) event for a
\* table whose node is dragging, the node's measured size holds the value of
\* the domain store: the height of the new field count, or the new width
C12_DraggingNodeGetsMeasured ==
    (last.op = "event" /\ IsSizeEvent(last.input) /\ EventNodeDragging(last.input)
     /\ HasId(nodes, last.input.tableId))
    => LET n == FindId(nodes, last.input.tableId)
           h == calcTableHeight(Len(last.input.fields))
       IN  IF last.input.action = "update_table"
           THEN last.input.width \in {n.measured.width, n.dataMeasured.width}
           ELSE h \in {n.measured.height, n.dataMeasured.height}

----------------------------------------------------------------------------
(* C13 *)

\* the tables an event concerns
EventTableIds(event) ==
    IF event.action = "add_tables" THEN {event.tables[i].id : i \in 1..Len(event.tables)}
    ELSE {event.tableId}

\* C13: an add_tables, add_field, remove_field or update_table event all of
\* whose tables have a dragging node makes no setOverlapGraph call and leaves
\* the overlap graph as it is
C13_DraggingExcludedFromOverlap ==
    [][(/\ last'.op = "event"
        /\ last'.input.action \in {"add_tables", "add_field", "remove_field", "update_table"}
        /\ \A id \in EventTableIds(last'.input) :
               HasId(rendered.nodes, id) /\ FindId(rendered.nodes, id).dragging)
       => (overlapGraph' = overlapGraph /\ calls' = <<>>)]_vars

\* t1 is being dragged; an add_tables event has named it, and the graph was
\* not written
C13_Witness ==
    /\ last.op = "event"
    /\ last.input.action = "add_tables"
    /\ EventTableIds(last.input) = {"t1"}
    /\ HasId(rendered.nodes, "t1") /\ FindId(rendered.nodes, "t1").dragging
    /\ HasId(nodes, "t1") /\ FindId(nodes, "t1").dragging
    /\ calls = <<>>
    /\ overlapGraph = findOverlappingTables(EventTables)


----------------------------------------------------------------------------
(* C14 *)

\* the ids of a batch that name none of the elements es
StaleIds(batch, es) == {batch[i].id : i \in {j \in 1..Len(batch) : ~HasId(es, batch[j].id)}}

----------------------------------------------------------------------------
(* C15 *)

\* C15: once the edge projection has run, a dependency edge is hidden exactly
\* when the show-dependencies preference is off and the dialect is not
\* ClickHouse, and no relationship edge is hidden
C15_DependencyHiddenRule ==
    "edgeProjection" \notin pending =>
        \A i \in 1..Len(edges) :
            IF edges[i].type = "dependency-edge"
            THEN edges[i].hidden <=>
                     (~showDependenciesOnCanvas /\ databaseType # CLICKHOUSE)
            ELSE ~edges[i].hidden

\* under ClickHouse the preference has been switched off and the edges were
\* projected again: the dependency edge d1 is shown
C15_Witness ==
    /\ last.op = "edgeProjection"
    /\ steps > 0
    /\ ~showDependenciesOnCanvas
    /\ databaseType = CLICKHOUSE
    /\ HasId(edges, "d1")
    /\ FindId(edges, "d1").type = "dependency-edge"
    /\ ~FindId(edges, "d1").hidden
    /\ HasId(edges, "r1")


----------------------------------------------------------------------------
(* C16 *)

\* C16: once the TableField element is torn down, no updateField call is
\* made: the write that was pending at teardown never happens
C16_NoWriteAfterTeardown ==
    [][~tableField.mounted => tableField'.writes = tableField.writes]_vars

\* the element was torn down with an edit of the name pending, twice the wait
\* has passed since, and the only write is the one made before the edit
C16_Witness ==
    /\ ~tableField.mounted
    /\ Len(tableField.torn) = 1
    /\ tableField.torn[1].value = [name |-> "idx"]
    /\ tableField.torn[1].left > 0
    /\ tableField.since >= 2 * FieldDelay
    /\ tableField.timer = <<>>
    /\ Len(tableField.writes) = 1
    /\ tableField.field.name = "id"


----------------------------------------------------------------------------
(* C17 *)

\* the adjacency relation of a graph
Relation(g) ==
    {p \in (DOMAIN g) \X ((DOMAIN g) \cup TableIds) : Includes(g[p[1]], p[2])}

\* the adjacency relation of a full recompute over the rectangles of the nodes
FullRelation(ns) ==
    {p \in TableIds \X TableIds :
        /\ p[1] # p[2]
        /\ HasId(ns, p[1]) /\ HasId(ns, p[2])
        /\ RectsOverlap(NodeRect(FindId(ns, p[1])), NodeRect(FindId(ns, p[2])))}

\* the two collections hold the same nodes with the same rectangles, but for id
SameRectsBut(ns, ms, id) ==
    /\ {ns[i].id : i \in 1..Len(ns)} = {ms[i].id : i \in 1..Len(ms)}
    /\ \A i \in 1..Len(ns) :
           ns[i].id # id => NodeRect(ns[i]) = NodeRect(FindId(ms, ns[i].id))

\* C17: a settle for one table node, scheduled with the graph of a full
\* recompute over the rectangles the scheduling render held, when no other
\* node's rectangle has changed since, gives the adjacency relation of a full
\* recompute over the rectangles the nodes have now
C17_IncrementalEqualsFull ==
    [][(/\ last'.op = "settle"
        /\ Len(last'.input) = 1
        /\ IsTableNode(VisibleTableNodes(nodes), last'.input[1])
        /\ Relation(Head(timers).overlapGraph)
               = FullRelation(VisibleTableNodes(Head(timers).nodes))
        /\ SameRectsBut(VisibleTableNodes(nodes), VisibleTableNodes(Head(timers).nodes),
                        last'.input[1]))
       => Relation(overlapGraph') = FullRelation(VisibleTableNodes(nodes))]_vars

\* t2 was moved onto t1 and the settle of the move has linked the two
C17_Witness ==
    /\ last.op = "settle"
    /\ last.input = <<"t2">>
    /\ settles = <<1>>
    /\ FindId(nodes, "t2").position = [x |-> Num(3), y |-> Num(2)]
    /\ Relation(findOverlappingTables(InitTables)) = {}
    /\ Relation(overlapGraph) = {<<"t1", "t2">>, <<"t2", "t1">>}


----------------------------------------------------------------------------
(* C18 *)

\* C18: the overlap graph is undirected in every reachable state: b is in
\* a's adjacency list exactly when a is in b's
C18_OverlapGraphUndirected ==
    \A a \in DOMAIN overlapGraph :
        \A i \in 1..Len(overlapGraph[a]) :
            LET b == overlapGraph[a][i]
            IN  b \in DOMAIN overlapGraph /\ Includes(overlapGraph[b], a)

\* an add_field event for t1 has made the incremental update that links t1
\* and t2 again
C18_Witness ==
    /\ last.op = "event"
    /\ last.input.action = "add_field"
    /\ last.input.tableId = "t1"
    /\ Len(CallsOf("setOverlapGraph")) = 1
    /\ overlapGraph = [v \in {"t1", "t2"} |-> IF v = "t1" THEN <<"t2">> ELSE <<"t1">>]


----------------------------------------------------------------------------
(* C19 *)

\* the graph g without the ids of the set S: neither as vertices nor in any
\* adjacency list, everything else as it is in g
WithoutIds(g, S) ==
    [v \in (DOMAIN g) \ S |-> SelectSeq(g[v], LAMBDA w : w \notin S)]

\* C19: a remove_tables event with table ids S leaves an overlap graph in
\* which no id of S is a vertex or a member of an adjacency list, and in which
\* the remaining vertices and their adjacency are those of the graph before
\* the event
C19_RemoveTablesRemovesOnlyS ==
    [][(steps' = steps + 1 /\ last'.op = "event"
        /\ last'.input.action = "remove_tables") =>
          overlapGraph' = WithoutIds(overlapGraph,
                                     {last'.input.tableIds[i] :
                                          i \in 1..Len(last'.input.tableIds)})]_vars


----------------------------------------------------------------------------
(* C20 *)

IsAreaNode(ns, id) == HasId(ns, id) /\ FindId(ns, id).type = "area"

\* the positions in the served batch of the changes for area id that satisfy P
AreaChangesOf(id, P(_)) ==
    {i \in 1..Len(last.input) : last.input[i].id = id /\ P(last.input[i])}

\* the positions in the calls of the calls of op for area id with data keys
AreaCallsOf(op, id, keys) ==
    {i \in 1..Len(calls) : /\ calls[i].op = op
                           /\ calls[i].ids = <<id>>
                           /\ calls[i].data.keys = keys}

\* C20: in a served batch every area position change with dragging cleared
\* yields one updateArea call with its x and y, every area dimensions change
\* with resizing cleared yields one updateArea call with its width and height,
\* every area remove change yields one removeArea call, and a change whose
\* dragging or resizing flag is set yields no updateArea call
C20_AreaChangesForwardedWhenTerminal ==
    (last.op = "nodesChange" /\ ~readonly) =>
        \A id \in {n \in NodeIds : IsAreaNode(rendered.nodes, n)} :
            /\ Cardinality(AreaCallsOf("updateArea", id, "xy"))
                   = Cardinality(AreaChangesOf(id,
                         LAMBDA c : c.type = "position" /\ ~c.dragging))
            /\ Cardinality(AreaCallsOf("updateArea", id, "wh"))
                   = Cardinality(AreaChangesOf(id,
                         LAMBDA c : c.type = "dimensions" /\ ~c.resizing))
            /\ Cardinality(AreaCallsOf("removeArea", id, NoData.keys))
                   = Cardinality(AreaChangesOf(id, LAMBDA c : c.type = "remove"))
            /\ \A i \in AreaCallsOf("updateArea", id, "wh") :
                   \E j \in AreaChangesOf(id, LAMBDA c : c.type = "dimensions") :
                       /\ calls[i].data.width = last.input[j].dimensions.width
                       /\ calls[i].data.height = last.input[j].dimensions.height


----------------------------------------------------------------------------
(* C21 *)

\* the nodes with the id of an entity
NodesOf(id) == {i \in 1..Len(nodes) : nodes[i].id = id}

\* C21: after a projection pass the node collection holds exactly one node per
\* domain table and per domain area and nothing else; node ids are pairwise
\* distinct and each node's kind is that of its entity
C21_OneNodePerEntity ==
    last.op = "nodeProjection" =>
        /\ \A i \in 1..Len(tables) :
               /\ Cardinality(NodesOf(tables[i].id)) = 1
               /\ \A j \in NodesOf(tables[i].id) : nodes[j].type = "table"
        /\ \A i \in 1..Len(areas) :
               /\ Cardinality(NodesOf(areas[i].id)) = 1
               /\ \A j \in NodesOf(areas[i].id) : nodes[j].type = "area"
        /\ \A j \in 1..Len(nodes) : HasId(tables, nodes[j].id) \/ HasId(areas, nodes[j].id)
        /\ \A j, k \in 1..Len(nodes) : nodes[j].id = nodes[k].id => j = k

\* a projection pass has created the node of the added table t3 and destroyed
\* the node of a removed table, with the area's node in place
C21_Witness ==
    /\ last.op = "nodeProjection"
    /\ HasId(nodes, "t3")
    /\ ~HasId(rendered.nodes, "t3")
    /\ \E id \in TableIds : HasId(rendered.nodes, id) /\ ~HasId(nodes, id)
    /\ HasId(nodes, "a1")


----------------------------------------------------------------------------
(* C22 *)

\* the graph g mentions id: as a vertex or in an adjacency list
Mentions(g, id) == id \in DOMAIN g \/ \E v \in DOMAIN g : Includes(g[v], id)

\* C22: the debounced overlap update never undoes a remove_tables patch: a
\* table that an event has removed while the update was pending (it is in
\* neither the domain list nor the overlap graph when the timer fires) has no
\* vertex and no adjacency entry in the graph after the update has fired
C22_SettleKeepsRemoval ==
    [][(last'.op = "settle" /\ timers' # timers) =>
          \A id \in TableIds :
              (~HasId(tables, id) /\ ~Mentions(overlapGraph, id))
                  => ~Mentions(overlapGraph', id)]_vars

----------------------------------------------------------------------------
(* C23 *)

\* the coordinate the change should carry on: its own when finite, else the
\* node's current one, else 0
Sanitized(v, ns, id, axis) ==
    IF IsFinite(v) THEN v
    ELSE IF HasId(ns, id) THEN FindId(ns, id).position[axis]
    ELSE Num(0)

PositionChangesOf(changes) ==
    SelectSeq(changes, LAMBDA c : c.type = "position" /\ c.position.has)

\* C23: every position change of a served batch is handed on with each
\* non-finite coordinate replaced by the node's current coordinate when the
\* node exists and by 0 otherwise, and with each finite coordinate as it came
C23_NonFiniteCoordinatesReplaced ==
    last.op = "nodesChange" =>
        PositionChangesOf(forwarded) =
            MapSeq(PositionChangesOf(last.input),
                   LAMBDA c : [c EXCEPT !.position =
                       Position(Sanitized(c.position.x, rendered.nodes, c.id, "x"),
                                Sanitized(c.position.y, rendered.nodes, c.id, "y"))])


----------------------------------------------------------------------------
(* C24 *)

\* the node after the pass has the transient interaction state of the node
\* before it
KeepsInteractionState(before, after) ==
    /\ after.selected = before.selected
    /\ after.dragging = before.dragging
    /\ after.resizing = before.resizing
    /\ (before.dragging \/ before.resizing) => after.measured = before.measured

\* C24: a projection pass leaves the selected, dragging and resizing flags of
\* every node that was already there, table or area, as they were, and carries
\* over the measured dimensions of a node that is mid-drag or mid-resize
C24_ProjectionKeepsInteractionState ==
    [][last'.op = "nodeProjection" =>
          \A j \in 1..Len(nodes) :
              HasId(nodes', nodes[j].id) =>
                  KeepsInteractionState(nodes[j], FindId(nodes', nodes[j].id))]_vars


----------------------------------------------------------------------------
(* C25 *)

\* C25: at the filter-change debounce site a later call supersedes the pending
\* one: at most one recompute is pending, and a recompute that writes the
\* overlap graph is the one scheduled for the latest filter
C25_LaterFilterSupersedes ==
    /\ Len(filterTimers) <= 1
    /\ last.op = "filterRecompute" => last.input = filteredSchemas


----------------------------------------------------------------------------
(* C26 *)

\* the event table has a rendered table node that is not dragging
HasIdleTableNode(t) ==
    /\ IsTableNode(rendered.nodes, t.id)
    /\ ~FindId(rendered.nodes, t.id).dragging

RECURSIVE FoldEventTables(_, _, _)
\* the incremental overlap update folded over the first k event tables that
\* have such a node, from the graph g
FoldEventTables(g, ts, k) ==
    IF k = 0 THEN g
    ELSE IF HasIdleTableNode(ts[k])
         THEN findTableOverlapping(FindId(rendered.nodes, ts[k].id),
                                   VisibleTableNodes(rendered.nodes),
                                   FoldEventTables(g, ts, k - 1))
         ELSE FoldEventTables(g, ts, k - 1)

\* C26: an add_tables event writes the overlap graph at most once, whatever
\* the number of its tables; what it writes is the incremental overlap update
\* folded, from the graph its handler holds, over exactly the event tables
\* with a rendered table node that is not dragging; with no such table it
\* writes nothing
C26_AddTablesWritesOnce ==
    [][(steps' = steps + 1 /\ last'.op = "event" /\ last'.input.action = "add_tables") =>
          LET ts == last'.input.tables
              setCalls == SelectSeq(calls', LAMBDA c : c.op = "setOverlapGraph")
          IN  IF \E k \in 1..Len(ts) : HasIdleTableNode(ts[k])
              THEN /\ Len(setCalls) = 1
                   /\ overlapGraph' = FoldEventTables(rendered.overlapGraph, ts, Len(ts))
              ELSE /\ Len(setCalls) = 0
                   /\ overlapGraph' = overlapGraph]_vars

\* an add_tables event with two tables, both with idle table nodes, has
\* written a graph that differs from the one before
C26_Witness ==
    /\ last.op = "event"
    /\ last.input.action = "add_tables"
    /\ Len(last.input.tables) = 2
    /\ \A k \in 1..2 : HasIdleTableNode(last.input.tables[k])
    /\ Len(CallsOf("setOverlapGraph")) = 1
    /\ overlapGraph # rendered.overlapGraph


----------------------------------------------------------------------------
(* C27 *)

\* the step is the processing of an event of one of the actions for a table
\* with a rendered table node that is not dragging
PatchesIdleNode(actions) ==
    /\ steps' = steps + 1
    /\ last'.op = "event"
    /\ last'.input.action \in actions
    /\ IsTableNode(rendered.nodes, last'.input.tableId)
    /\ ~FindId(rendered.nodes, last'.input.tableId).dragging

\* C27: an add_field or remove_field event for a table with a rendered node
\* that is not dragging computes the incremental overlap update with the
\* height of the event's field count, and afterwards the node's measured
\* dimensions hold that height
C27_FieldEventPatchesHeight ==
    [][PatchesIdleNode({"add_field", "remove_field"}) =>
          LET id == last'.input.tableId
              height == calcTableHeight(Len(last'.input.fields))
              node == FindId(rendered.nodes, id)
          IN  /\ overlapGraph' =
                     findTableOverlapping([node EXCEPT !.measured.height = height],
                                          VisibleTableNodes(rendered.nodes),
                                          rendered.overlapGraph)
              /\ FindId(nodes', id).measured.height = height]_vars


----------------------------------------------------------------------------
(* C28 *)

\* C28: an update_table event changes the overlap graph only when it carries
\* a width and its table has a rendered node that is not dragging; then the
\* node's measured width becomes the new width and the incremental overlap
\* update uses it; an update_table event without a width leaves the overlap
\* graph and every node as they are
C28_UpdateTablePatchesWidth ==
    [][(steps' = steps + 1 /\ last'.op = "event"
        /\ last'.input.action = "update_table") =>
          LET id == last'.input.tableId
              width == last'.input.width
          IN  /\ (width = Undef \/ ~PatchesIdleNode({"update_table"}))
                     => overlapGraph' = overlapGraph
              /\ (width # Undef /\ PatchesIdleNode({"update_table"}))
                     => /\ overlapGraph' =
                               findTableOverlapping(
                                   [FindId(rendered.nodes, id) EXCEPT !.measured.width = width],
                                   VisibleTableNodes(rendered.nodes), rendered.overlapGraph)
                        /\ FindId(nodes', id).measured.width = width
              /\ width = Undef => nodes' = nodes]_vars


----------------------------------------------------------------------------
(* C29 *)

\* C29: a load_diagram event replaces the overlap graph by the full recompute
\* over exactly the tables of the loaded diagram that the current schema
\* filter shows: nothing of the graph before survives and no table the filter
\* hides is in the graph
C29_LoadDiagramRecomputesVisible ==
    [][(steps' = steps + 1 /\ last'.op = "event"
        /\ last'.input.action = "load_diagram") =>
          LET shown == SelectSeq(last'.input.tables,
                                 LAMBDA t : shouldShowTablesBySchemaFilter(t, filteredSchemas))
          IN  /\ overlapGraph' = findOverlappingTables(shown)
              /\ \A k \in 1..Len(last'.input.tables) :
                     ~shouldShowTablesBySchemaFilter(last'.input.tables[k], filteredSchemas)
                         => ~Mentions(overlapGraph', last'.input.tables[k].id)]_vars


----------------------------------------------------------------------------
(* C30 *)

\* the ids of the table nodes for which the batch handed on has a remove change
RemovedTables(changes, ns) ==
    {changes[i].id : i \in {j \in 1..Len(changes) :
                                changes[j].type = "remove" /\ IsTableNode(ns, changes[j].id)}}

\* the batch has a terminal position change for a table node
HasTerminalMove(changes, ns) ==
    \E i \in 1..Len(changes) :
        /\ changes[i].type = "position"
        /\ ~changes[i].dragging
        /\ IsTableNode(ns, changes[i].id)

\* C30: a batch with terminal position changes and remove changes for tables
\* (the remove changes that the read-only policy lets through) makes exactly
\* one updateTablesState call; its result has x and y of every table with a
\* terminal position change set to the rounded final coordinates, lacks exactly
\* the tables with a remove change, and has every other table, and every other
\* attribute of the moved tables, as before and in the same order
C30_OnePatchPerBatch ==
    [][(/\ last'.op = "nodesChange"
        /\ steps' = steps + 1
        /\ \/ HasTerminalMove(last'.input, nodes)
           \/ RemovedTables(forwarded', nodes) # {}) =>
          LET removed == RemovedTables(forwarded', nodes)
              kept == SelectSeq(tables, LAMBDA t : t.id \notin removed)
          IN  /\ Len(SelectSeq(calls', LAMBDA c : c.op = "updateTablesState")) = 1
              /\ Len(tables') = Len(kept)
              /\ \A i \in 1..Len(kept) :
                     LET term == TerminalWrites(last'.input, kept[i].id)
                     IN  IF term # {} /\ IsTableNode(nodes, kept[i].id)
                         THEN LET final == last'.input[SetMax(term)].position
                                  node == FindId(nodes, kept[i].id)
                              IN  tables'[i] =
                                      [kept[i] EXCEPT
                                         !.x = MathRound(FinalCoord(final.x, node.position.x)),
                                         !.y = MathRound(FinalCoord(final.y, node.position.y))]
                         ELSE tables'[i] = kept[i]]_vars

\* a batch that ends a move of t1 at (1.5, 1) and removes t2 has been served:
\* one call, t1 alone is left, at (2, 1), with its fields
C30_Witness ==
    /\ last.op = "nodesChange"
    /\ last.input = <<PositionChange("t1", FALSE, Position(Num(3), Num(2))), RemoveChange("t2")>>
    /\ Len(CallsOf("updateTablesState")) = 1
    /\ tables = <<[InitTables[1] EXCEPT !.x = Num(4), !.y = Num(2)]>>


----------------------------------------------------------------------------
(* C31 *)

\* the domain ids of the live edges of the type that the remove changes of the
\* batch name
NamedForRemoval(batch, es, type) ==
    {FindId(es, batch[i].id).data.id :
         i \in {j \in 1..Len(batch) : /\ batch[j].type = "remove"
                                      /\ HasId(es, batch[j].id)
                                      /\ FindId(es, batch[j].id).type = type}}

\* the calls of op are: none when ids is empty, else one call with exactly ids
CalledOnceWith(cs, op, ids) ==
    LET made == SelectSeq(cs, LAMBDA c : c.op = op)
    IN  IF ids = {} THEN made = <<>>
        ELSE Len(made) = 1 /\ Range(made[1].ids) = ids

\* C31: when not read-only, a batch of edge changes calls removeRelationships
\* at most once, with exactly the relationship ids of the live relationship
\* edges its remove changes name, and removeDependencies at most once, with
\* exactly the dependency ids of the live dependency edges they name; neither
\* is called with an empty list, and no other domain call is made
C31_EdgeRemovalsCalledOnce ==
    [][(last'.op = "edgesChange" /\ steps' = steps + 1 /\ ~readonly) =>
          /\ CalledOnceWith(calls', "removeRelationships",
                            NamedForRemoval(last'.input, edges, "relationship-edge"))
          /\ CalledOnceWith(calls', "removeDependencies",
                            NamedForRemoval(last'.input, edges, "dependency-edge"))
          /\ \A i \in 1..Len(calls') :
                 calls'[i].op \in {"removeRelationships", "removeDependencies"}]_vars

\* a batch that removes the dependency edge d1 and the relationship edge r1
\* has been served: one call of each operation, each with its own id
C31_Witness ==
    /\ ~readonly
    /\ last.op = "edgesChange"
    /\ last.input = <<RemoveChange("d1"), RemoveChange("r1")>>
    /\ calls = <<Call("removeRelationships", <<"r1">>, NoData),
                 Call("removeDependencies", <<"d1">>, NoData)>>


----------------------------------------------------------------------------
(* C32 *)

\* the source handle of the gesture is a dependency handle
IsDependencyGesture(params) ==
    \/ StartsWith(params.sourceHandle, TOP_SOURCE_HANDLE_ID_PREFIX)
    \/ StartsWith(params.sourceHandle, BOTTOM_SOURCE_HANDLE_ID_PREFIX)

\* the table has a field whose id is the last piece of the handle
HandleNamesField(tableId, handle) ==
    \E i \in 1..Len(tables) :
        /\ tables[i].id = tableId
        /\ \E j \in 1..Len(tables[i].fields) :
               handle # <<>> /\ tables[i].fields[j].id = handle[Len(handle)]

\* C32: a connect gesture from a dependency handle makes exactly one call,
\* createDependency with tableId the gesture's target and dependentTableId its
\* source, whatever the fields and their types, and no createRelationship
\* call; a gesture from another handle whose source or target field is not
\* found makes no create call and shows no warning
C32_DependencyGestureCreatesDependency ==
    last.op = "connect" =>
        /\ IsDependencyGesture(last.input)
               => calls = <<Call("createDependency",
                                 <<last.input.target, last.input.source>>, NoData)>>
        /\ (/\ ~IsDependencyGesture(last.input)
            /\ \/ ~HandleNamesField(last.input.source, last.input.sourceHandle)
               \/ ~HandleNamesField(last.input.target, last.input.targetHandle))
               => calls = <<>>

\* a gesture from the top handle of t1 to t2, ending on the handle of a field
\* that does not exist, has created the dependency of t1 on t2
C32_Witness ==
    /\ last.op = "connect"
    /\ last.input = [source |-> "t1",
                     sourceHandle |-> TOP_SOURCE_HANDLE_ID_PREFIX \o <<"t1">>,
                     target |-> "t2",
                     targetHandle |-> TARGET_ID_PREFIX \o <<"0", "zz">>]
    /\ calls = <<Call("createDependency", <<"t2", "t1">>, NoData)>>
    /\ Len(dependencies) = Len(InitDependencies) + 1


----------------------------------------------------------------------------
(* C33 *)

\* the operations of the element that pass an edit to the debounced writer
FieldEditOps == {"fieldName", "fieldType", "fieldNullable", "fieldPrimaryKey"}

\* the step is a keystroke in the name input of the mounted element
NameKeystroke == tableField.mounted /\ steps' # steps /\ last'.op = "fieldName"

\* C33: for a mounted TableField, every keystroke of a burst of name edits
\* sets the displayed name at once and makes no updateField call; no call is
\* made while a wait is running; a call is made only when the wait of 200 ms
\* that the last keystroke started is over, carries what that keystroke
\* typed and leaves nothing pending; and, unless the element is torn down
\* or another edit follows, the call for the last typed name is made
C33_NameBurstWritesOnce ==
    /\ [][NameKeystroke =>
            /\ tableField'.localName = last'.input.name
            /\ tableField'.writes = tableField.writes
            /\ tableField'.timer = <<[left |-> FieldDelay, value |-> [name |-> last'.input.name]]>>]_vars
    /\ [][(tableField.timer # <<>> /\ tableField.timer[1].left > 0)
            => tableField'.writes = tableField.writes]_vars
    /\ [][tableField'.writes # tableField.writes =>
            /\ Len(tableField.timer) = 1
            /\ tableField.timer[1].left = 0
            /\ tableField'.writes = Append(tableField.writes, tableField.timer[1].value)
            /\ tableField'.timer = <<>>]_vars
    /\ \A v \in FieldNames :
           (tableField.mounted /\ last.op = "fieldName" /\ last.input.name = v)
               ~> \/ ~tableField.mounted
                  \/ last.op \in FieldEditOps /\ last.input # [name |-> v]
                  \/ last.op = "updateField" /\ last.input = [name |-> v]

\* two keystrokes were typed, one updateField call was made, and it carries
\* the name typed last, which the element displays
C33_Witness ==
    /\ tableField.mounted
    /\ steps = 2
    /\ last.op = "updateField"
    /\ tableField.writes = <<[name |-> "idx"]>>
    /\ tableField.localName = "idx"
    /\ tableField.field.name = "idx"
    /\ tableField.timer = <<>>

----------------------------------------------------------------------------
(* C34 *)

\* the attributes the element edits
FieldAttributes == {"name", "type", "nullable", "primaryKey"}

\* the operation that edits an attribute
EditOpOf(k) ==
    CASE k = "name" -> "fieldName"
      [] k = "type" -> "fieldType"
      [] k = "nullable" -> "fieldNullable"
      [] k = "primaryKey" -> "fieldPrimaryKey"

\* the values an attribute can be edited to
FieldValuesOf(k) ==
    CASE k = "name" -> FieldNames
      [] k = "type" -> FieldTypes
      [] OTHER -> BOOLEAN

\* C34: while the TableField stays mounted no edit is lost: once an
\* attribute is edited to a value, that value is passed to updateField,
\* unless the element is torn down or the same attribute is edited again
C34_NoEditLost ==
    \A k \in FieldAttributes : \A v \in FieldValuesOf(k) :
        (tableField.mounted /\ last.op = EditOpOf(k) /\ last.input[k] = v)
            ~> \/ ~tableField.mounted
               \/ last.op = EditOpOf(k) /\ last.input[k] # v
               \/ last.op = "updateField" /\ k \in DOMAIN last.input /\ last.input[k] = v



----------------------------------------------------------------------------
(* C35 *)

\* the table nodes on the canvas
TableNodes == SelectSeq(nodes, LAMBDA n : n.type = "table")

\* C35: in every quiescent state each table node's isOverlapping flag is
\* true exactly when the overlap graph's adjacency list of that table is
\* non-empty; a table without a vertex in the graph is not flagged
C35_FlagMatchesOverlapGraph ==
    Quiescent =>
        \A i \in 1..Len(TableNodes) :
            /\ TableNodes[i].isOverlapping
                   <=> (/\ TableNodes[i].id \in DOMAIN overlapGraph
                        /\ Len(overlapGraph[TableNodes[i].id]) > 0)
            /\ TableNodes[i].id \notin DOMAIN overlapGraph => ~TableNodes[i].isOverlapping

\* after an event, with every effect run: a flagged table whose adjacency
\* list is non-empty next to an unflagged table without a vertex
C35_Witness ==
    /\ Quiescent
    /\ steps > 0
    /\ \E i \in 1..Len(TableNodes) :
           /\ TableNodes[i].isOverlapping
           /\ Len(Adjacency(overlapGraph, TableNodes[i].id)) > 0
    /\ \E i \in 1..Len(TableNodes) :
           /\ ~TableNodes[i].isOverlapping
           /\ TableNodes[i].id \notin DOMAIN overlapGraph


====
